---- MODULE Spec2Model ----
(***************************************************************************)
(* Publication scheduler and placement reconciler of TGChannel-Push.       *)
(*                                                                         *)
(* The model follows src/src/tgchannel_push/scheduler/jobs/publish.py,     *)
(* scheduler/scheduler.py, services/publisher.py, services/telegram_utils  *)
(* and api/routes/slots.py, over the tables of database/models.py, and     *)
(* the bot reload of api/routes/settings.py, bot/bot.py and main.py.       *)
(*                                                                         *)
(* Database rows are records; a nullable column that holds None is NULL.   *)
(* One publish cycle is a process per slot: Fire loads the slot, its pool  *)
(* and its channels, Apply handles one channel, Finish advances the        *)
(* rotation offset and commits the session.  Rows changed by a cycle stay  *)
(* in its session (cyc[s].pend, cyc[s].plogs) until the commit of          *)
(* execute_slot_publish; Telegram side effects happen at once.             *)
(***************************************************************************)
EXTENDS Integers, Sequences, FiniteSets, TLC

\* ------------------------------------------------------------------ bounds
MaxSlot == 2
MaxChannel == 2
MaxCreative == 3
MaxNow == 2
\* triggers fired, requests served and ticks taken in one run
MaxSteps == 3
CycleSteps == 2
SelectSteps == 2
SyncSteps == 2
ClearSteps == 2
PoolSteps == 2
ChannelSteps == 2
MaxRetries == 1
MaxWait == 2
\* bot token requests one run serves
MaxUpdates == 2

TicksPerDay == 2

SlotIds == 1..MaxSlot
ChannelIds == 1..MaxChannel
CreativeIds == 1..MaxCreative

\* None / SQL NULL of a nullable integer or datetime column
NULL == -1

VARIABLES
    slots,       \* table slots: [SlotIds -> row]
    creatives,   \* table ad_creatives: [CreativeIds -> row]
    channels,    \* table channels: [ChannelIds -> row]
    placements,  \* table placements: set of rows
    logs,        \* table operation_logs: sequence of rows (append-only)
    remote,      \* messages that exist in Telegram: set of [chat, mid]
    nextMid,     \* next message id Telegram hands out, per chat
    jobs,        \* APScheduler job store: set of [id, trigger, args]
    syncs,       \* sync_slot_jobs tasks in flight: sequence of [pc, dirty, rows]
    cyc,         \* execute_slot_publish in flight, per slot
    bg,          \* delete_slot_messages_background tasks: sequence of lists
    now,         \* wall clock (ticks) in settings.timezone
    steps,       \* triggers, requests and ticks the run may still take
    perms,       \* permutations execute_random_slot has produced so far
    call,        \* a with_retry call in flight
    bot,         \* bot_module.bot: the Bot installed, or NULL
    polling_task,\* main_module._polling_task: the task held, or NULL
    tasks,       \* dp.start_polling tasks: [TaskIds -> state]
    closed,      \* the Bots whose session reinit_bot has closed
    upd          \* update_bot_token requests in flight, per request

vars == <<slots, creatives, channels, placements, logs, remote, nextMid, jobs,
          syncs, cyc, bg, now, steps, perms, call,
          bot, polling_task, tasks, closed, upd>>

\* the state of the bot and its polling, which only the token requests touch
botvars == <<bot, polling_task, tasks, closed, upd>>

\* the tables, the scheduler and the cycles, which the token requests leave
pushvars == <<slots, creatives, channels, placements, logs, remote, nextMid,
              jobs, syncs, cyc, bg, now, steps, perms, call>>

\* ------------------------------------------------------------ small helpers
Min(S) == CHOOSE x \in S : \A y \in S : x <= y

RECURSIVE SortedSeq(_)
SortedSeq(S) == IF S = {} THEN <<>>
                ELSE <<Min(S)>> \o SortedSeq(S \ {Min(S)})

Range(q) == {q[k] : k \in 1..Len(q)}

\* Channel.tg_chat_id: the Telegram chat a channel row stands for
ChatOf(c) == 100 + c

\* now.date() in the configured timezone
DateOf(t) == t \div TicksPerDay

\* ---------------------------------------------------------------- cron
GoodCron == <<"0", "9", "*", "*", "*">>
OtherCron == <<"30", "18", "*", "*", "*">>
ShortCron == <<"0", "9", "*", "*">>
BadFieldCron == <<"0", "9x", "*", "*", "*">>
CronExprs == {GoodCron, OtherCron, ShortCron, BadFieldCron}

\* field values CronTrigger accepts, among the ones used here
ValidCronField == {"*", "0", "9", "18", "30"}

\* parse_cron: five whitespace separated fields, each handed to CronTrigger,
\* which raises ValueError on a field it cannot parse.
ValueError == [raised |-> TRUE]

parse_cron(cron_expr) ==
    IF Len(cron_expr) # 5 THEN ValueError
    ELSE IF \E k \in 1..5 : cron_expr[k] \notin ValidCronField THEN ValueError
    ELSE [raised |-> FALSE,
          minute |-> cron_expr[1], hour |-> cron_expr[2], day |-> cron_expr[3],
          month |-> cron_expr[4], day_of_week |-> cron_expr[5]]

\* --------------------------------------------------------- random shuffle
\* seed = int(md5(f"{now.date()}_{slot.id}").hexdigest()[:8], 16): a fixed
\* function of the cycle key; the arithmetic stands for the digest.
\* the key taken from the time of the run instead of its date
cycle_key_of_run(t, slot_id) == <<t, slot_id>>

cycle_key(t, slot_id) == <<DateOf(t), slot_id>>

seed_of(key) == key[1] * 3 + key[2]

\* random.Random(seed): the k-th bounded draw of a generator is a fixed
\* function of the seed
randbelow(seed, k, n) == (seed + k) % n

Swap(x, a, b) == [x EXCEPT ![a] = x[b], ![b] = x[a]]

\* rng.shuffle(x): Fisher-Yates from the last index down to 1 (0-based i)
RECURSIVE ShuffleFrom(_, _, _)
ShuffleFrom(x, seed, i) ==
    IF i < 1 THEN x
    ELSE ShuffleFrom(Swap(x, i + 1, randbelow(seed, i, i + 1) + 1), seed, i - 1)

shuffled_creatives(t, slot_id, pool) ==
    ShuffleFrom(pool, seed_of(cycle_key(t, slot_id)), Len(pool) - 1)

\* --------------------------------------------------------------- selection
\* ids of creatives that are active in OTHER slots of the channel
active_creative_ids(rows, channel_id, slot_id) ==
    {r.creative_id : r \in {x \in rows : /\ x.channel_id = channel_id
                                         /\ x.slot_id # slot_id
                                         /\ x.deleted_at = NULL}} \ {NULL}

\* the walk falling back on the creative at the start index
RECURSIVE FindFromOrStart(_, _, _, _)
FindFromOrStart(cs, offset, active, i) ==
    IF cs = <<>> THEN NULL
    ELSE IF i >= Len(cs) THEN cs[(offset % Len(cs)) + 1]
    ELSE LET candidate == cs[((offset + i) % Len(cs)) + 1]
         IN IF candidate \notin active THEN candidate
            ELSE FindFromOrStart(cs, offset, active, i + 1)

RECURSIVE FindFrom(_, _, _, _)
FindFrom(cs, offset, active, i) ==
    IF i >= Len(cs) THEN NULL
    ELSE LET candidate == cs[((offset + i) % Len(cs)) + 1]
         IN IF candidate \notin active THEN candidate
            ELSE FindFrom(cs, offset, active, i + 1)

\* the creative at the start index, whatever the channel shows
find_creative_at_offset(rows, channel_id, slot_id, cs, offset) ==
    IF cs = <<>> THEN NULL ELSE cs[(offset % Len(cs)) + 1]

find_available_creative(rows, channel_id, slot_id, cs, offset) ==
    FindFrom(cs, offset, active_creative_ids(rows, channel_id, slot_id), 0)


\* ------------------------------------------------------------------ tables
\* ChannelGroupMember: group 1 holds every channel, group 2 the first one
GroupMembers == [g \in {1, 2} |-> IF g = 1 THEN {1, 2} ELSE {1}]

\* Slot.group_id: the first slot belongs to group 1, the others to group 2
GroupOf(s) == IF s = 1 THEN 1 ELSE 2

Slot(group_id, slot_type, enabled, cron, offset) ==
    [exists |-> TRUE, group_id |-> group_id, slot_type |-> slot_type,
     enabled |-> enabled, publish_cron |-> cron,
     delete_mode |-> "none", delete_after_seconds |-> NULL,
     rotation_offset |-> offset]

\* a slot id whose row has been deleted
NoSlot == [exists |-> FALSE, group_id |-> 1, slot_type |-> "fixed",
           enabled |-> FALSE, publish_cron |-> GoodCron,
           delete_mode |-> "none", delete_after_seconds |-> NULL,
           rotation_offset |-> 0]

AdCreative(slot_id, enabled) ==
    [exists |-> TRUE, slot_id |-> slot_id, enabled |-> enabled]

NoCreative == [exists |-> FALSE, slot_id |-> NULL, enabled |-> FALSE]

Channel(status, permissions_ok) ==
    [status |-> status, permissions_ok |-> permissions_ok]

\* Placement(channel_id=..., slot_id=...): a new row, other columns at their
\* defaults
Placement(id, channel_id, slot_id) ==
    [id |-> id, channel_id |-> channel_id, slot_id |-> slot_id,
     creative_id |-> NULL, message_id |-> NULL, is_pinned |-> FALSE,
     published_at |-> NULL, scheduled_delete_at |-> NULL, deleted_at |-> NULL]

\* "placement is None"
NoPlacement == [id |-> NULL]

OperationLog(channel_id, slot_id, creative_id, message_id, status) ==
    [op_type |-> "publish", channel_id |-> channel_id, slot_id |-> slot_id,
     creative_id |-> creative_id, message_id |-> message_id, status |-> status]

\* the index without unique=True: any set of rows passes
idx_placements_not_unique(rows) == TRUE

\* Index("idx_placements_channel_slot", "channel_id", "slot_id", unique=True)
idx_placements_channel_slot(rows) ==
    \A r1, r2 \in rows :
        (r1.channel_id = r2.channel_id /\ r1.slot_id = r2.slot_id) => r1.id = r2.id

\* -------------------------------------------------------------- with_retry
DEFAULT_MAX_RETRIES == 3
DEFAULT_BASE_DELAY == 1

\* what one invocation of func ends with: a result, or an exception.
\* keyword: str(e).lower() holds "timeout", "connection" or "network";
\* permanent: the request is refused for good (not found, forbidden, invalid
\* content) and Telegram answers the same to every repetition
Outcome(kind, retry_after, keyword, permanent) ==
    [kind |-> kind, retry_after |-> retry_after, keyword |-> keyword,
     permanent |-> permanent, text |-> ""]

NoException == Outcome("none", 0, FALSE, FALSE)
Returned == Outcome("ok", 0, FALSE, FALSE)
TelegramRetryAfter(w) == Outcome("retry_after", w, FALSE, FALSE)
TelegramAPIError(keyword, permanent) == Outcome("api", 0, keyword, permanent)
OtherException == Outcome("other", 0, FALSE, TRUE)

\* "Bad Request: message to delete not found" / "message to unpin not found"
MessageNotFound == [TelegramAPIError(FALSE, TRUE) EXCEPT !.text = "not found"]

\* "Bad Request: message can't be deleted"
MessageCantBeDeleted ==
    [TelegramAPIError(FALSE, TRUE) EXCEPT !.text = "can't be deleted"]

Outcomes ==
    {Returned, OtherException}
        \cup {TelegramRetryAfter(w) : w \in 1..MaxWait}
        \cup {TelegramAPIError(k, p) : k, p \in BOOLEAN}
        \cup {MessageNotFound, MessageCantBeDeleted}

IdleCall == [pc |-> "idle", max_retries |-> 0, base_delay |-> 0, attempt |-> 0,
             outs |-> <<>>, times |-> <<>>, clock |-> 0, wait |-> 0,
             last_exception |-> NoException, raised |-> NoException,
             verb |-> "none", safe |-> "none"]

\* any(x in error_str for x in ["timeout", "connection", "network"])
is_transient(e) == e.keyword

\* the wait taken from the base delay instead of the rate-limit signal
retry_after_wait_base(e) == DEFAULT_BASE_DELAY

\* wait_time = e.retry_after + 1
retry_after_wait(e) == e.retry_after + 1

\* delay = base_delay * (2 ** attempt)
backoff(base_delay, attempt) == base_delay * (2 ^ attempt)

\* a counter that the rate-limit path does not advance
next_attempt_per_path(attempt, e) ==
    IF e.kind = "retry_after" THEN attempt ELSE attempt + 1

\* "for attempt in range(max_retries + 1)": the index after a failed attempt
next_attempt(attempt, e) == attempt + 1

\* with_retry is called: the loop starts, or ends at once on an empty range
\* and the function returns None
RetryCall(max_retries) ==
    /\ call.pc = "idle"
    /\ call' = [IdleCall EXCEPT
                   !.pc = IF 0 < max_retries + 1 THEN "try" ELSE "returned",
                   !.max_retries = max_retries,
                   !.base_delay = DEFAULT_BASE_DELAY]
    /\ UNCHANGED <<slots, creatives, channels, placements, logs, remote,
                   nextMid, jobs, syncs, cyc, bg, now, steps, perms,
                   botvars>>

\* "return await func(*args, **kwargs)" and the except clauses
RetryAttempt(e) ==
    /\ call.pc = "try"
    /\ LET c == [call EXCEPT !.outs = Append(@, e), !.times = Append(@, call.clock)]
       IN call' =
            IF e.kind = "ok" THEN [c EXCEPT !.pc = "returned"]
            ELSE IF e.kind = "retry_after"
            THEN [c EXCEPT !.pc = "sleep", !.wait = retry_after_wait(e),
                           !.last_exception = e]
            ELSE IF e.kind = "api" /\ is_transient(e)
            THEN [c EXCEPT !.pc = "sleep",
                           !.wait = backoff(call.base_delay, call.attempt),
                           !.last_exception = e]
            ELSE [c EXCEPT !.pc = "raised", !.raised = e]
    /\ UNCHANGED <<slots, creatives, channels, placements, logs, remote,
                   nextMid, jobs, syncs, cyc, bg, now, steps, perms,
                   botvars>>

\* "await asyncio.sleep(...)", then the next turn of the loop or, the range
\* used up, "raise last_exception"
RetrySleep ==
    /\ call.pc = "sleep"
    /\ LET attempt == next_attempt(call.attempt, call.last_exception)
       IN call' = [call EXCEPT
                      !.clock = @ + call.wait,
                      !.attempt = attempt,
                      !.pc = IF attempt < call.max_retries + 1 THEN "try"
                             ELSE "raised",
                      !.raised = IF attempt < call.max_retries + 1 THEN @
                                 ELSE call.last_exception]
    /\ UNCHANGED <<slots, creatives, channels, placements, logs, remote,
                   nextMid, jobs, syncs, cyc, bg, now, steps, perms,
                   botvars>>

\* "except TelegramAPIError": TelegramRetryAfter is one of its subclasses
IsTelegramAPIError(e) == e.kind \in {"api", "retry_after"}

\* delete_message_safe, from what with_retry(bot.delete_message, ...) has
\* ended with: its return value, or "raise" for an exception it lets through
delete_message_result(e) ==
    IF e = NoException THEN "True"
    ELSE IF IsTelegramAPIError(e)
    THEN IF e.text = "not found" \/ e.text = "can't be deleted"
         THEN "True" ELSE "False"
    ELSE "raise"

\* unpin_message_safe, from what with_retry(bot.unpin_chat_message, ...) has
\* ended with
unpin_message_result(e) ==
    IF e = NoException THEN "True"
    ELSE IF IsTelegramAPIError(e) THEN "False"
    ELSE "raise"

SafeVerbs == {"delete_message", "unpin_chat_message"}

\* delete_message_safe / unpin_message_safe enter with_retry with its
\* default arguments
SafeCall(verb) ==
    /\ call.pc = "idle"
    /\ call' = [IdleCall EXCEPT !.pc = "try",
                                !.max_retries = DEFAULT_MAX_RETRIES,
                                !.base_delay = DEFAULT_BASE_DELAY,
                                !.verb = verb]
    /\ UNCHANGED <<slots, creatives, channels, placements, logs, remote,
                   nextMid, jobs, syncs, cyc, bg, now, steps, perms,
                   botvars>>

\* with_retry has returned or raised: the safe verb returns its bool
SafeReturn ==
    /\ call.verb \in SafeVerbs
    /\ call.pc \in {"returned", "raised"}
    /\ call.safe = "none"
    /\ call' = [call EXCEPT
                   !.safe = IF call.verb = "delete_message"
                            THEN delete_message_result(call.raised)
                            ELSE unpin_message_result(call.raised)]
    /\ UNCHANGED <<slots, creatives, channels, placements, logs, remote,
                   nextMid, jobs, syncs, cyc, bg, now, steps, perms,
                   botvars>>


\* ----------------------------------------------------------------- gateway
\* What Telegram answers to the requests of one step, after with_retry has
\* used up its attempts where the call is wrapped: TRUE = accepted.
GwOutcomes == [del : BOOLEAN, send : BOOLEAN, pin : BOOLEAN]

Exists(rem, chat, mid) == \E m \in rem : m.chat = chat /\ m.mid = mid

Removed(rem, chat, mid) == {m \in rem : ~(m.chat = chat /\ m.mid = mid)}

\* delete_old_message: unpin (its errors are ignored; a pin is no message, so
\* the set of existing messages is untouched), then bot.delete_message, whose
\* exception (refused, or message to delete not found) is re-raised
delete_old_message(rem, chat_id, message_id, gw) ==
    IF gw.del /\ Exists(rem, chat_id, message_id)
    THEN [remote |-> Removed(rem, chat_id, message_id), raised |-> FALSE]
    ELSE [remote |-> rem, raised |-> TRUE]

\* pin_message_safe returns a bool: True when pinned, False on TelegramAPIError
pin_message_safe(rem, chat_id, message_id, gw) ==
    IF gw.pin /\ Exists(rem, chat_id, message_id)
    THEN [type |-> "bool", v |-> TRUE]
    ELSE [type |-> "bool", v |-> FALSE]

\* "a, b = value" succeeds on a sequence of two items only; on a bool Python
\* raises TypeError: cannot unpack non-iterable bool object
CanUnpack2(value) == value.type = "tuple2"

\* the tuple (message_id, pin_ok, pin_error_message) that
\* publish_creative_to_channel returns and that its caller keeps whole as
\* message_id: a value that cannot be bound to an Integer column
Tuple3 == -2

\* the publisher returning the message id alone
publish_creative_returns_id(rem, nmid, chat_id, gw) ==
    IF ~gw.send
    THEN [raised |-> TRUE, sent |-> NULL, value |-> NULL,
          remote |-> rem, nextMid |-> nmid]
    ELSE [raised |-> FALSE, sent |-> nmid[chat_id], value |-> nmid[chat_id],
          remote |-> rem \cup {[chat |-> chat_id, mid |-> nmid[chat_id]]},
          nextMid |-> [nmid EXCEPT ![chat_id] = @ + 1]]

\* publish_creative_to_channel: send the message (send_*_safe or
\* copy_message_safe), pin it, unpack the result of pin_message_safe into
\* (pin_ok, pin_error_message), delete the pin service message, return
\* (message_id, pin_ok, pin_error_message).
publish_creative_to_channel(rem, nmid, chat_id, gw) ==
    IF ~gw.send
    THEN [raised |-> TRUE, sent |-> NULL, value |-> NULL,
          remote |-> rem, nextMid |-> nmid]
    ELSE LET message_id == nmid[chat_id]
             r1 == rem \cup {[chat |-> chat_id, mid |-> message_id]}
             n1 == [nmid EXCEPT ![chat_id] = @ + 1]
             pin == pin_message_safe(r1, chat_id, message_id, gw)
         IN IF CanUnpack2(pin)
            THEN [raised |-> FALSE, sent |-> message_id,
                  value |-> Tuple3,
                  remote |-> r1, nextMid |-> n1]
            ELSE [raised |-> TRUE, sent |-> message_id, value |-> NULL,
                  remote |-> r1, nextMid |-> n1]

\* what with_retry(bot.delete_message, ...) ends with: nothing raised when
\* Telegram deletes the message, "not found" when the message is gone, a
\* refusal otherwise
bot_delete_message(rem, chat_id, message_id, gw) ==
    IF ~Exists(rem, chat_id, message_id) THEN MessageNotFound
    ELSE IF gw.del THEN NoException
    ELSE TelegramAPIError(FALSE, TRUE)

\* delete_message_safe of one captured message: True when the message was
\* deleted or is already gone, False when Telegram refuses (the unpin before
\* it changes no message and its answer is not looked at)
delete_message_safe(rem, chat_id, message_id, gw) ==
    LET e == bot_delete_message(rem, chat_id, message_id, gw)
    IN [remote |-> IF e = NoException THEN Removed(rem, chat_id, message_id)
                   ELSE rem,
        ok |-> delete_message_result(e) = "True"]


\* ----------------------------------------------------------- publish cycle
IdleCyc == [pc |-> "idle", slot_type |-> "fixed", pool |-> <<>>, n |-> 0,
            chans |-> <<>>, i |-> 0, off |-> 0, pend |-> {}, plogs |-> <<>>,
            reqs |-> <<>>]

\* the rows a query of the session of slot s sees: committed rows, with the
\* rows the session holds modified in place of their committed versions
SessionRows(s) ==
    {r \in placements : \A q \in cyc[s].pend : q.id # r.id} \cup cyc[s].pend

\* autoincrement primary key of a new placements row
NextPlacementId ==
    LET used == {r.id : r \in placements \cup UNION {cyc[s].pend : s \in SlotIds}}
    IN IF used = {} THEN 1
       ELSE (CHOOSE x \in used : \A y \in used : y <= x) + 1

\* slot.creatives as loaded, the disabled ones included
bound_creatives(s) ==
    SortedSeq({c \in CreativeIds : /\ creatives[c].exists
                                   /\ creatives[c].slot_id = s})

\* [c for c in slot.creatives if c.enabled], in primary key order
enabled_creatives(s) ==
    SortedSeq({c \in CreativeIds : /\ creatives[c].exists
                                   /\ creatives[c].slot_id = s
                                   /\ creatives[c].enabled})

\* channels joined through ChannelGroupMember with status "active"
active_channels(s) ==
    SortedSeq({c \in GroupMembers[slots[s].group_id] :
                  channels[c].status = "active"})

\* a random slot going on without a creative
returns_early_if_fixed(s, cs, chs) ==
    \/ ~slots[s].exists
    \/ ~slots[s].enabled
    \/ cs = <<>> /\ slots[s].slot_type = "fixed"
    \/ chs = <<>>

\* the returns at the head of execute_slot_publish: slot not found, slot
\* disabled, no enabled creatives, no active channels
\* a trigger that goes on for a disabled slot
returns_early_if_missing(s, cs, chs) ==
    \/ ~slots[s].exists
    \/ cs = <<>>
    \/ chs = <<>>

returns_early(s, cs, chs) ==
    \/ ~slots[s].exists
    \/ ~slots[s].enabled
    \/ cs = <<>>
    \/ chs = <<>>

\* the last of the enabled creatives
last_creative(cs) == cs[Len(cs)]

\* execute_fixed_slot(session, slot, creatives[0], channels)
fixed_creative(cs) == cs[1]

\* execute_slot_publish up to the call of execute_fixed_slot or
\* execute_random_slot, and the shuffle at the head of execute_random_slot
Fire(s) ==
    /\ \E j \in jobs : j.args = s
    /\ cyc[s].pc = "idle"
    /\ steps > 0
    /\ steps' = steps - 1
    /\ LET cs == enabled_creatives(s)
           chs == active_channels(s)
           order == shuffled_creatives(now, s, cs)
       IN IF returns_early(s, cs, chs)
          THEN UNCHANGED <<cyc, perms>>
          ELSE IF slots[s].slot_type = "fixed"
          THEN /\ cyc' = [cyc EXCEPT ![s] =
                   [IdleCyc EXCEPT !.pc = "run", !.slot_type = "fixed",
                                   !.pool = <<fixed_creative(cs)>>, !.n = Len(cs),
                                   !.chans = chs,
                                   !.off = slots[s].rotation_offset]]
               /\ UNCHANGED perms
          ELSE /\ cyc' = [cyc EXCEPT ![s] =
                   [IdleCyc EXCEPT !.pc = "run", !.slot_type = "random",
                                   !.pool = order, !.n = Len(cs),
                                   !.chans = chs,
                                   !.off = slots[s].rotation_offset]]
               /\ perms' = perms \cup {[slot_id |-> s, date |-> DateOf(now),
                                        pool |-> cs, order |-> order]}
    /\ UNCHANGED <<slots, creatives, channels, placements, logs, remote,
                   nextMid, jobs, syncs, bg, now, call,
                   botvars>>

\* slot.delete_mode == "after_seconds" and slot.delete_after_seconds
scheduled_delete_at(s, t) ==
    IF slots[s].delete_mode = "after_seconds"
       /\ slots[s].delete_after_seconds # NULL /\ slots[s].delete_after_seconds # 0
    THEN t + slots[s].delete_after_seconds
    ELSE NULL

\* deleted_at set only when the removal went through
mark_deleted_on_success(placement, had_old, del_raised, t) ==
    IF had_old /\ ~del_raised THEN [placement EXCEPT !.deleted_at = t] ELSE placement

\* "Mark as deleted regardless of success": placement.deleted_at = now
mark_deleted(placement, had_old, del_raised, t) ==
    IF had_old THEN [placement EXCEPT !.deleted_at = t] ELSE placement

\* the exception not caught: it leaves the loop and execute_slot_publish,
\* and the session is rolled back
on_publish_error_uncaught(c, pend, log) == IdleCyc

\* "except Exception as e" around the publish: the failure is logged to
\* operation_logs and the loop over the channels goes on
\* a failed publish that puts the row of the pair back in use
on_publish_error_restores(c, pend, log) ==
    [c EXCEPT !.i = @ + 1,
              !.pend = {IF q.channel_id = log.channel_id /\ q.slot_id = log.slot_id
                        THEN [q EXCEPT !.deleted_at = NULL] ELSE q : q \in pend},
              !.plogs = Append(@, log)]

\* a failed publish that leaves a new row for the pair
on_publish_error_inserts(c, pend, log) ==
    [c EXCEPT !.i = @ + 1,
              !.pend = pend \cup {Placement(NextPlacementId, log.channel_id,
                                             log.slot_id)},
              !.plogs = Append(@, log)]

on_publish_error(c, pend, log) ==
    [c EXCEPT !.i = @ + 1, !.pend = pend, !.plogs = Append(@, log)]

\* the new message sent before the old one is dealt with
turn_requests_publish_first(had_old, sent) ==
    <<"send">>
        \o (IF sent THEN <<"pin_chat_message">> ELSE <<>>)
        \o (IF had_old THEN <<"unpin_chat_message", "delete_message", "deleted_at">>
            ELSE <<>>)

\* what publish_to_channel_with_dedup asks of Telegram and writes to the old
\* row, in the order of its statements: delete_old_message (unpin, delete)
\* and placement.deleted_at when there is an old message, then the send of
\* publish_creative_to_channel and, the message sent, its pin
turn_requests(had_old, sent) ==
    (IF had_old THEN <<"unpin_chat_message", "delete_message", "deleted_at">>
     ELSE <<>>)
        \o <<"send">>
        \o (IF sent THEN <<"pin_chat_message">> ELSE <<>>)

\* the rows of the channel, whatever their slot
placement_of_channel(rows, ch, s) == {r \in rows : r.channel_id = ch}

\* select(Placement).where(channel_id == channel.id).where(slot_id == slot.id)
existing_placement(rows, ch, s) ==
    {r \in rows : r.channel_id = ch /\ r.slot_id = s}

\* publish_to_channel_with_dedup(session, slot, creative, channel)
publish_to_channel_with_dedup(s, ch, creative, gw) ==
    LET c == cyc[s]
        found == existing_placement(SessionRows(s), ch, s)
    IN IF Cardinality(found) > 1
       THEN \* scalar_one_or_none raises MultipleResultsFound: the exception
            \* leaves execute_slot_publish and the session is rolled back
            /\ cyc' = [cyc EXCEPT ![s] = IdleCyc]
            /\ UNCHANGED <<remote, nextMid>>
       ELSE
        LET placement == IF found = {} THEN NoPlacement ELSE CHOOSE r \in found : TRUE
            had_old == /\ placement.id # NULL
                       /\ placement.message_id # NULL
                       /\ placement.deleted_at = NULL
            del == IF had_old
                   THEN delete_old_message(remote, ChatOf(ch), placement.message_id, gw)
                   ELSE [remote |-> remote, raised |-> FALSE]
            marked == mark_deleted(placement, had_old, del.raised, now)
            pub == publish_creative_to_channel(del.remote, nextMid, ChatOf(ch), gw)
            base == IF marked.id = NULL THEN Placement(NextPlacementId, ch, s)
                    ELSE marked
            upserted == [base EXCEPT !.creative_id = creative,
                                     !.message_id = pub.value,
                                     !.is_pinned = TRUE,
                                     !.published_at = now,
                                     !.deleted_at = NULL,
                                     !.scheduled_delete_at = scheduled_delete_at(s, now)]
            keep == {q \in c.pend : q.id # marked.id}
        IN /\ remote' = pub.remote
           /\ nextMid' = pub.nextMid
           /\ IF ~pub.raised
              THEN cyc' = [cyc EXCEPT ![s] =
                      [c EXCEPT !.i = @ + 1,
                                !.reqs = turn_requests(had_old, pub.sent # NULL),
                                !.pend = keep \cup {upserted},
                                !.plogs = Append(@, OperationLog(ch, s, creative,
                                                       pub.value, "success"))]]
              ELSE cyc' = [cyc EXCEPT ![s] =
                      on_publish_error(
                          [c EXCEPT !.reqs = turn_requests(had_old, pub.sent # NULL)],
                          IF had_old THEN keep \cup {marked} ELSE c.pend,
                          OperationLog(ch, s, creative, NULL, "failed"))]

\* the creative the loop takes for its next channel: creatives[0] in
\* execute_fixed_slot, find_available_creative(.., slot.rotation_offset + i)
\* in execute_random_slot
select_creative(s) ==
    LET c == cyc[s]
    IN IF c.slot_type = "fixed" THEN c.pool[1]
       ELSE find_available_creative(SessionRows(s), c.chans[c.i + 1], s,
                                    c.pool, c.off + c.i)

\* one turn of the loop of execute_fixed_slot / execute_random_slot
Apply(s) ==
    /\ cyc[s].pc = "run"
    /\ cyc[s].i < Len(cyc[s].chans)
    /\ LET c == cyc[s]
           ch == c.chans[c.i + 1]
           creative == select_creative(s)
       IN IF creative = NULL
          THEN /\ cyc' = [cyc EXCEPT ![s].i = @ + 1, ![s].reqs = <<>>]
               /\ UNCHANGED <<remote, nextMid>>
          ELSE \E gw \in GwOutcomes : publish_to_channel_with_dedup(s, ch, creative, gw)
    /\ UNCHANGED <<slots, creatives, channels, placements, logs, jobs, syncs,
                   bg, now, steps, perms, call,
                   botvars>>

\* the session cannot be flushed: an UPDATE of a row that a concurrent
\* delete_slot has removed matches no row (StaleDataError), or a tuple is
\* to be bound to the Integer column message_id
CommitFails(s) ==
    \/ cyc[s].slot_type = "random" /\ ~slots[s].exists
    \/ \E q \in cyc[s].pend : ~slots[q.slot_id].exists
    \/ \E q \in cyc[s].pend : q.message_id = Tuple3

\* the offset advanced without the modulo
advance_rotation_no_wrap(slot_type, offset, n) ==
    IF slot_type = "random" THEN offset + 1 ELSE offset

\* slot.rotation_offset = (slot.rotation_offset + 1) % len(creatives)
\* an offset that no cycle moves
advance_rotation_stays(slot_type, offset, n) == offset

\* an offset that moves at the end of the cycles of fixed slots too
advance_rotation_any_type(slot_type, offset, n) == (offset + 1) % n

advance_rotation(slot_type, offset, n) ==
    IF slot_type = "random" THEN (offset + 1) % n ELSE offset

\* the end of execute_slot_publish: rotation offset and session.commit()
Finish(s) ==
    /\ cyc[s].pc = "run"
    /\ cyc[s].i = Len(cyc[s].chans)
    /\ cyc' = [cyc EXCEPT ![s] = IdleCyc]
    /\ IF CommitFails(s)
       THEN UNCHANGED <<slots, placements, logs>>
       ELSE /\ slots' = IF slots[s].exists
                        THEN [slots EXCEPT ![s].rotation_offset =
                                 advance_rotation(cyc[s].slot_type, cyc[s].off, cyc[s].n)]
                        ELSE slots
            /\ placements' = SessionRows(s)
            /\ logs' = logs \o cyc[s].plogs
    /\ UNCHANGED <<creatives, channels, remote, nextMid, jobs, syncs, bg, now,
                   steps, perms, call,
                   botvars>>


\* --------------------------------------------------------------- scheduler
\* job id f"slot_{slot.id}_publish"
job_id(slot_id) == <<"slot", slot_id, "publish">>

\* a filter that takes no job for a slot job
is_never_slot_job(j) == FALSE

\* job.id.startswith("slot_")
is_slot_job(j) == j.id[1] = "slot"

\* the job added with the trigger of the first cron expression, whatever
\* the slot asks for
add_job_fixed_trigger(js, trigger, id, slot_id) ==
    {j \in js : j.id # id}
        \cup {[id |-> id, trigger |-> parse_cron(GoodCron), args |-> slot_id]}

\* scheduler.add_job(..., id=job_id, args=[slot.id], replace_existing=True)
add_job(js, trigger, id, slot_id) ==
    {j \in js : j.id # id} \cup {[id |-> id, trigger |-> trigger, args |-> slot_id]}

RECURSIVE add_slot_jobs(_, _)

\* the exception of parse_cron ends the whole loop
on_cron_error_abort(js, rest) == js

\* "except Exception as e" inside the loop of sync_slot_jobs: the failure is
\* logged and the loop goes on with the slots that are left
on_cron_error(js, rest) == add_slot_jobs(js, rest)

\* the loop "for slot in slots" of sync_slot_jobs over the enabled slots read
add_slot_jobs(js, rows) ==
    IF rows = <<>> THEN js
    ELSE LET slot == Head(rows)
             trigger == parse_cron(slot.publish_cron)
         IN IF trigger.raised
            THEN on_cron_error(js, Tail(rows))
            ELSE add_slot_jobs(add_job(js, trigger, job_id(slot.id), slot.id), Tail(rows))

\* select(Slot).where(Slot.enabled == True): the rows as read, each with the
\* id and the cron expression the loop uses
enabled_slots ==
    LET ids == SortedSeq({s \in SlotIds : slots[s].exists /\ slots[s].enabled})
    IN [k \in DOMAIN ids |-> [id |-> ids[k],
                              publish_cron |-> slots[ids[k]].publish_cron]]

\* asyncio.create_task(sync_slot_jobs()); site names the caller. rows holds
\* what the awaited read of the task may have returned before the slots
\* were last changed
SpawnSync(q, site) ==
    Append(q, [pc |-> "spawned", dirty |-> FALSE, site |-> site, rows |-> {}])

\* a stored slot is about to change while a sync is between its removal of
\* the jobs and its end: its read may have returned the rows as they are now
Touch(q) == [k \in DOMAIN q |->
                IF q[k].pc = "removed"
                THEN [q[k] EXCEPT !.dirty = TRUE, !.rows = @ \cup {enabled_slots}]
                ELSE q[k]]

\* another sync that a change of a stored slot has met has added its jobs
\* while a sync was between its removal of the jobs and its end
Taint(q) == [k \in DOMAIN q |->
                IF q[k].pc = "removed" THEN [q[k] EXCEPT !.dirty = TRUE] ELSE q[k]]

\* what "await session.execute(select(Slot)...)" of sync k can have returned
\* when the coroutine resumes: the rows as they are, or as they were at some
\* moment since the jobs were removed
Reads(k) == syncs[k].rows \cup {enabled_slots}

DropAt(q, k) == SubSeq(q, 1, k - 1) \o SubSeq(q, k + 1, Len(q))

\* removing a job ends the instances of it that are running
instances_cancelled(c, removed) ==
    [s \in SlotIds |-> IF \E j \in removed : j.args = s THEN IdleCyc ELSE c[s]]

\* scheduler.remove_job(job.id) takes the job out of the job store; an
\* instance of the job that is running is a coroutine of its own and is not
\* cancelled
instances_after_remove(c, removed) == c

\* sync_slot_jobs, first part: remove all existing slot jobs
SyncRemove(k) ==
    /\ k \in DOMAIN syncs
    /\ syncs[k].pc = "spawned"
    /\ jobs' = {j \in jobs : ~is_slot_job(j)}
    /\ cyc' = instances_after_remove(cyc, {j \in jobs : is_slot_job(j)})
    /\ syncs' = [syncs EXCEPT ![k].pc = "removed"]
    /\ UNCHANGED <<slots, creatives, channels, placements, logs, remote,
                   nextMid, bg, now, steps, perms, call,
                   botvars>>

\* sync_slot_jobs, second part: the coroutine resumes from the awaited read
\* of the enabled slots and adds the jobs of the slots it has read
SyncAdd(k) ==
    /\ k \in DOMAIN syncs
    /\ syncs[k].pc = "removed"
    /\ \E rows \in Reads(k) : jobs' = add_slot_jobs(jobs, rows)
    /\ syncs' = DropAt(IF syncs[k].dirty THEN Taint(syncs) ELSE syncs, k)
    /\ UNCHANGED <<slots, creatives, channels, placements, logs, remote,
                   nextMid, cyc, bg, now, steps, perms, call,
                   botvars>>

\* ------------------------------------------------- administrative requests
AdminOk(s) == slots[s].exists /\ steps > 0

\* POST /slots/{slot_id}/enable
enable_slot(s) ==
    /\ AdminOk(s)
    /\ slots' = [slots EXCEPT ![s].enabled = TRUE]
    /\ syncs' = SpawnSync(Touch(syncs), "enable_slot")
    /\ steps' = steps - 1
    /\ UNCHANGED <<creatives, channels, placements, logs, remote, nextMid,
                   jobs, cyc, bg, now, perms, call,
                   botvars>>

\* POST /slots/{slot_id}/disable
disable_slot(s) ==
    /\ AdminOk(s)
    /\ slots' = [slots EXCEPT ![s].enabled = FALSE]
    /\ syncs' = SpawnSync(Touch(syncs), "disable_slot")
    /\ steps' = steps - 1
    /\ UNCHANGED <<creatives, channels, placements, logs, remote, nextMid,
                   jobs, cyc, bg, now, perms, call,
                   botvars>>

\* PUT /slots/{slot_id} with publish_cron
update_slot(s, cron) ==
    /\ AdminOk(s)
    /\ slots' = [slots EXCEPT ![s].publish_cron = cron]
    /\ syncs' = SpawnSync(Touch(syncs), "update_slot")
    /\ steps' = steps - 1
    /\ UNCHANGED <<creatives, channels, placements, logs, remote, nextMid,
                   jobs, cyc, bg, now, perms, call,
                   botvars>>

\* the (chat_id, message_id) pairs of the active placements of a slot that
\* carry a message, in primary key order
RECURSIVE messages_of(_, _)
messages_of(rows, ids) ==
    IF ids = <<>> THEN <<>>
    ELSE LET r == CHOOSE x \in rows : x.id = Head(ids)
         IN <<[chat |-> ChatOf(r.channel_id), mid |-> r.message_id]>>
            \o messages_of(rows, Tail(ids))

\* the rows of a slot that carry a message, cleared ones included
with_message(s) ==
    {r \in placements : r.slot_id = s /\ r.message_id # NULL}

active_with_message(s) ==
    {r \in placements : /\ r.slot_id = s
                        /\ r.deleted_at = NULL
                        /\ r.message_id # NULL}

\* a capture that stops after the first row
messages_to_delete_first(s) ==
    LET all == messages_of(active_with_message(s),
                           SortedSeq({r.id : r \in active_with_message(s)}))
    IN IF all = <<>> THEN <<>> ELSE <<Head(all)>>

messages_to_delete(s) ==
    messages_of(active_with_message(s), SortedSeq({r.id : r \in active_with_message(s)}))

\* asyncio.create_task(delete_slot_messages_background(messages_to_delete))
\* the task starts at the unpin of its first message
SpawnBackground(q, msgs) ==
    IF msgs = <<>> THEN q
    ELSE Append(q, [todo |-> msgs, pc |-> "unpin", unpin_ok |-> TRUE])

\* POST /slots/{slot_id}/clear
clear_slot(s) ==
    /\ slots[s].exists
    /\ steps > 0
    /\ placements' = {IF r \in active_with_message(s)
                      THEN [r EXCEPT !.deleted_at = now] ELSE r : r \in placements}
    /\ bg' = SpawnBackground(bg, messages_to_delete(s))
    /\ steps' = steps - 1
    /\ UNCHANGED <<slots, creatives, channels, logs, remote, nextMid, jobs,
                   syncs, cyc, now, perms, call,
                   botvars>>

\* DELETE /slots/{slot_id}: the slot row goes, with its creatives and its
\* placements (cascade="all, delete-orphan"); placements of other slots that
\* showed one of the deleted creatives keep their row with creative_id NULL
delete_slot(s) ==
    /\ AdminOk(s)
    /\ slots' = [slots EXCEPT ![s] = NoSlot]
    /\ creatives' = [c \in CreativeIds |->
                        IF creatives[c].slot_id = s THEN NoCreative ELSE creatives[c]]
    /\ placements' = {IF r.creative_id # NULL /\ creatives[r.creative_id].slot_id = s
                      THEN [r EXCEPT !.creative_id = NULL] ELSE r
                         : r \in {x \in placements : x.slot_id # s}}
    /\ syncs' = SpawnSync(Touch(syncs), "delete_slot")
    /\ bg' = SpawnBackground(bg, messages_to_delete(s))
    /\ steps' = steps - 1
    /\ UNCHANGED <<channels, logs, remote, nextMid, jobs, cyc, now, perms, call,
                   botvars>>

\* POST /creatives/{creative_id}/bind/{slot_id}
bind_creative_to_slot(c, s) ==
    /\ creatives[c].exists
    /\ slots[s].exists
    /\ steps > 0
    /\ creatives' = [creatives EXCEPT ![c].slot_id = s]
    /\ steps' = steps - 1
    /\ UNCHANGED <<slots, channels, placements, logs, remote, nextMid, jobs,
                   syncs, cyc, bg, now, perms, call,
                   botvars>>

\* POST /creatives/{creative_id}/unbind
unbind_creative(c) ==
    /\ creatives[c].exists
    /\ steps > 0
    /\ creatives' = [creatives EXCEPT ![c].slot_id = NULL]
    /\ steps' = steps - 1
    /\ UNCHANGED <<slots, channels, placements, logs, remote, nextMid, jobs,
                   syncs, cyc, bg, now, perms, call,
                   botvars>>

\* PUT /creatives/{creative_id} with enabled
update_creative(c, enabled) ==
    /\ creatives[c].exists
    /\ steps > 0
    /\ creatives' = [creatives EXCEPT ![c].enabled = enabled]
    /\ steps' = steps - 1
    /\ UNCHANGED <<slots, channels, placements, logs, remote, nextMid, jobs,
                   syncs, cyc, bg, now, perms, call,
                   botvars>>

\* the flags of the bot's ChatMember the handler reads; "None" for a flag the
\* update does not carry
FlagValues == {"True", "False", "None"}

RequiredFlags == [can_post_messages : FlagValues,
                  can_delete_messages : FlagValues,
                  can_pin_messages : FlagValues]

ChatMemberStatuses == {"administrator", "member", "restricted", "left", "kicked"}

\* permissions_ok as on_bot_channel_status_change computes it
handler_permissions_ok(new_status, flags) ==
    /\ new_status = "administrator"
    /\ flags.can_post_messages # "False"
    /\ flags.can_delete_messages # "False"
    /\ flags.can_pin_messages # "False"

\* my_chat_member update for a channel already in the table
on_bot_channel_status_change(ch, new_status, flags) ==
    /\ steps > 0
    /\ channels' =
          IF new_status \in {"administrator", "member"}
          THEN [channels EXCEPT
                   ![ch] = Channel("active", handler_permissions_ok(new_status, flags))]
          ELSE IF new_status \in {"left", "kicked"}
          THEN [channels EXCEPT ![ch] = Channel("left", FALSE)]
          ELSE channels
    /\ steps' = steps - 1
    /\ UNCHANGED <<slots, creatives, placements, logs, remote, nextMid, jobs,
                   syncs, cyc, bg, now, perms, call,
                   botvars>>

\* a removal that puts the row of a message it could not delete back in use
rows_reactivated_on_failure(rows, m, ok) ==
    {IF ~ok /\ ChatOf(r.channel_id) = m.chat /\ r.message_id = m.mid
     THEN [r EXCEPT !.deleted_at = NULL] ELSE r : r \in rows}

\* delete_slot_messages_background opens no session: whatever the gateway
\* returns for a message, the rows stay as the request committed them
rows_after_background(rows, m, ok) == rows

\* the loop of delete_slot_messages_background goes on to the delete of the
\* message whatever the unpin has returned
after_unpin(task, ok) == [task EXCEPT !.pc = "delete", !.unpin_ok = ok]

\* a loop that gives up at the first message it could not delete
after_delete_stop_on_failure(task, ok) ==
    IF ok THEN [task EXCEPT !.todo = Tail(@), !.pc = "unpin", !.unpin_ok = TRUE]
    ELSE [task EXCEPT !.todo = <<>>, !.pc = "unpin", !.unpin_ok = TRUE]

\* the loop goes on to the next message whatever the delete has returned
after_delete(task, ok) ==
    [task EXCEPT !.todo = Tail(@), !.pc = "unpin", !.unpin_ok = TRUE]

\* delete_slot_messages_background: "await unpin_message_safe(bot, chat_id,
\* message_id)" of the message at hand; an unpin leaves the messages of the
\* chat as they are
BackgroundUnpin(t) ==
    /\ t \in DOMAIN bg
    /\ bg[t].pc = "unpin"
    /\ \E e \in {NoException, MessageNotFound, TelegramAPIError(FALSE, TRUE)} :
         bg' = [bg EXCEPT ![t] = after_unpin(@, unpin_message_result(e) = "True")]
    /\ UNCHANGED <<slots, creatives, channels, placements, logs, remote,
                   nextMid, jobs, syncs, cyc, now, steps, perms, call,
                   botvars>>

\* "if await delete_message_safe(bot, chat_id, message_id)", the pause, and
\* the next turn of the loop or its end
BackgroundDelete(t) ==
    /\ t \in DOMAIN bg
    /\ bg[t].pc = "delete"
    /\ \E gw \in GwOutcomes :
         LET m == Head(bg[t].todo)
             r == delete_message_safe(remote, m.chat, m.mid, gw)
             task == after_delete(bg[t], r.ok)
         IN /\ remote' = r.remote
            /\ placements' = rows_after_background(placements, m, r.ok)
            /\ bg' = IF task.todo = <<>> THEN DropAt(bg, t)
                      ELSE [bg EXCEPT ![t] = task]
    /\ UNCHANGED <<slots, creatives, channels, logs, nextMid, jobs,
                   syncs, cyc, now, steps, perms, call,
                   botvars>>

\* time passes
Tick ==
    /\ now < MaxNow
    /\ steps > 0
    /\ now' = now + 1
    /\ steps' = steps - 1
    /\ UNCHANGED <<slots, creatives, channels, placements, logs, remote,
                   nextMid, jobs, syncs, cyc, bg, perms, call,
                   botvars>>


\* -------------------------------------------------------------- bot reload
\* PUT /settings/bot-token with settings.use_polling set.  Bot 0 and task 0
\* are the ones of the lifespan; request r makes Bot r and task r.  A
\* request is a coroutine: each action below is the code between two of its
\* awaits.
BotIds == 0..MaxUpdates

TaskIds == 0..MaxUpdates

UpdateIds == 1..MaxUpdates

IdleUpd == [pc |-> "idle", awaited |-> NULL, closing |-> NULL]

\* the bot and its polling as the lifespan leaves them with a token set
InitBot ==
    /\ bot = 0
    /\ polling_task = 0
    /\ tasks = [t \in TaskIds |-> IF t = 0 THEN "running" ELSE "none"]
    /\ closed = {}
    /\ upd = [r \in UpdateIds |-> IdleUpd]

\* Task.cancel(): asks a task that has not ended to end
cancel(ts, t) == IF ts[t] = "running" THEN [ts EXCEPT ![t] = "cancelling"] ELSE ts

\* reinit_bot, "bot = Bot(token=new_token, ...)": the constructor raises for
\* a token it rejects, and reinit_bot then leaves no bot and returns None
make_bot(r, valid) ==
    IF valid
    THEN /\ bot' = r
         /\ upd' = [upd EXCEPT ![r] = [IdleUpd EXCEPT !.pc = "webhook"]]
    ELSE /\ bot' = NULL
         /\ upd' = [upd EXCEPT ![r] = [IdleUpd EXCEPT !.pc = "done"]]

\* reinit_bot up to its first await: with a bot installed it awaits the
\* close of the session of that bot
reinit_bot(r, valid) ==
    IF bot # NULL
    THEN /\ upd' = [upd EXCEPT ![r] = [IdleUpd EXCEPT !.pc = "close", !.closing = bot]]
         /\ UNCHANGED bot
    ELSE make_bot(r, valid)

\* update_bot_token, from the stored token to its first await: a polling
\* task that is held is cancelled and awaited
update_bot_token(r) ==
    /\ upd[r].pc = "idle"
    /\ IF polling_task # NULL
       THEN /\ tasks' = cancel(tasks, polling_task)
            /\ upd' = [upd EXCEPT ![r] = [IdleUpd EXCEPT !.pc = "task",
                                                         !.awaited = polling_task]]
            /\ UNCHANGED bot
       ELSE /\ \E valid \in BOOLEAN : reinit_bot(r, valid)
            /\ UNCHANGED tasks
    /\ UNCHANGED <<polling_task, closed>>
    /\ UNCHANGED pushvars

\* update_bot_token resumes from "await main_module._polling_task": the
\* handle is cleared and reinit_bot is entered
polling_stopped(r) ==
    /\ upd[r].pc = "task"
    /\ tasks[upd[r].awaited] = "done"
    /\ polling_task' = NULL
    /\ \E valid \in BOOLEAN : reinit_bot(r, valid)
    /\ UNCHANGED <<tasks, closed>>
    /\ UNCHANGED pushvars

\* reinit_bot resumes from "await bot.session.close()" and makes the new Bot
session_closed(r) ==
    /\ upd[r].pc = "close"
    /\ closed' = closed \cup {upd[r].closing}
    /\ \E valid \in BOOLEAN : make_bot(r, valid)
    /\ UNCHANGED <<polling_task, tasks>>
    /\ UNCHANGED pushvars

\* update_bot_token resumes from "await new_bot.delete_webhook(...)": the
\* polling task of the new Bot is created and stored in the handle; when
\* Telegram refuses the call the request ends with a warning
webhook_deleted(r) ==
    /\ upd[r].pc = "webhook"
    /\ \E ok \in BOOLEAN :
          IF ok
          THEN /\ polling_task' = r
               /\ tasks' = [tasks EXCEPT ![r] = "running"]
          ELSE UNCHANGED <<polling_task, tasks>>
    /\ upd' = [upd EXCEPT ![r] = [IdleUpd EXCEPT !.pc = "done"]]
    /\ UNCHANGED <<bot, closed>>
    /\ UNCHANGED pushvars

\* a cancelled dp.start_polling task ends
PollingEnds(t) ==
    /\ tasks[t] = "cancelling"
    /\ tasks' = [tasks EXCEPT ![t] = "done"]
    /\ UNCHANGED <<bot, polling_task, closed, upd>>
    /\ UNCHANGED pushvars

\* -------------------------------------------------------------------- Init
\* The database outlives the process (init_db only creates missing tables):
\* at start it holds the slots, creatives and channels the administrator has
\* set up and the placements earlier cycles have left, within the unique
\* index of the placements table.

\* creatives are bound two per slot, in id order; those left over are unbound
InitSlotOf(c) == IF (c + 1) \div 2 \in SlotIds THEN (c + 1) \div 2 ELSE NULL

\* a placement an earlier cycle published and pinned; its message still
\* exists in the chat
OldPlacement(ch, s, c) ==
    LET id == ((ch - 1) * MaxSlot + (s - 1)) * MaxCreative + c
    IN [Placement(id, ch, s) EXCEPT
           !.creative_id = c, !.message_id = id, !.is_pinned = TRUE,
           !.published_at = 0]

\* the channels that carry placements at start
InitChannels == {1}

\* the creatives of the first slot; a placement of another slot shows one of
\* them when the creative was bound to that slot at the time of the publish
FirstPool == {c \in CreativeIds : InitSlotOf(c) = 1}

OldPlacements(shown) ==
    {OldPlacement(ch, s, c) : ch \in InitChannels, s \in SlotIds, c \in shown}

\* no creative is active twice in one channel
NoDoubleContent(rows) ==
    \A r1, r2 \in rows :
        (/\ r1.channel_id = r2.channel_id /\ r1.creative_id = r2.creative_id
         /\ r1.deleted_at = NULL /\ r2.deleted_at = NULL) => r1.slot_id = r2.slot_id

InitTables(types, offsets, shown) ==
    /\ \E t2 \in types, o \in offsets :
         slots = [s \in SlotIds |->
                    IF s = 1 THEN Slot(GroupOf(s), "random", TRUE, GoodCron, o)
                    ELSE Slot(GroupOf(s), t2, TRUE, GoodCron, 0)]
    /\ creatives = [c \in CreativeIds |-> AdCreative(InitSlotOf(c), TRUE)]
    /\ channels = [c \in ChannelIds |-> Channel("active", TRUE)]
    /\ placements \in SUBSET OldPlacements(shown)
    /\ idx_placements_channel_slot(placements)
    /\ NoDoubleContent(placements)
    /\ remote = {[chat |-> ChatOf(r.channel_id), mid |-> r.message_id]
                    : r \in placements}
    /\ nextMid = [c \in {ChatOf(ch) : ch \in ChannelIds} |->
                    MaxChannel * MaxSlot * MaxCreative + 1]
    /\ logs = <<>>

\* The reconciler at work: the triggers of the enabled slots are installed
\* (start-up sync done), cycles fire and run side by side with clear and
\* delete requests, their background removals and the syncs they start.
InitCycle ==
    /\ InitTables({"fixed"}, {1}, FirstPool)
    /\ jobs = add_slot_jobs({}, enabled_slots)
    /\ syncs = <<>>
    /\ cyc = [s \in SlotIds |-> IdleCyc]
    /\ bg = <<>>
    /\ now = 0
    /\ steps = CycleSteps
    /\ perms = {}
    /\ call = IdleCall
    /\ InitBot

NextCycle ==
    \/ \E s \in SlotIds : Fire(s)
    \/ \E s \in SlotIds : Apply(s)
    \/ \E s \in SlotIds : Finish(s)
    \/ \E s \in SlotIds : clear_slot(s)
    \/ \E s \in SlotIds : delete_slot(s)
    \/ \E t \in 1..Len(bg) : BackgroundUnpin(t)
    \/ \E t \in 1..Len(bg) : BackgroundDelete(t)
    \/ \E k \in 1..Len(syncs) : SyncRemove(k)
    \/ \E k \in 1..Len(syncs) : SyncAdd(k)

SpecCycle == InitCycle /\ [][NextCycle]_vars

\* Selection at work: the triggers are installed and cycles fire over a
\* database whose placements show any of the creatives (a creative may have
\* been rebound to another slot since it was published).
InitSelect ==
    /\ InitTables({"fixed", "random"}, {0, 1}, CreativeIds)
    /\ jobs = add_slot_jobs({}, enabled_slots)
    /\ syncs = <<>>
    /\ cyc = [s \in SlotIds |-> IdleCyc]
    /\ bg = <<>>
    /\ now = 0
    /\ steps = SelectSteps
    /\ perms = {}
    /\ call = IdleCall
    /\ InitBot

NextSelect ==
    \/ \E s \in SlotIds : Fire(s)
    \/ \E s \in SlotIds : Apply(s)
    \/ \E s \in SlotIds : Finish(s)

SpecSelect == InitSelect /\ [][NextSelect]_vars

\* The shuffle over the days: random slots fire again and again while time
\* passes.
InitShuffle ==
    /\ InitTables({"random"}, {0, 1}, {})
    /\ jobs = add_slot_jobs({}, enabled_slots)
    /\ syncs = <<>>
    /\ cyc = [s \in SlotIds |-> IdleCyc]
    /\ bg = <<>>
    /\ now = 0
    /\ steps = MaxSteps
    /\ perms = {}
    /\ call = IdleCall
    /\ InitBot

NextShuffle ==
    \/ \E s \in SlotIds : Fire(s)
    \/ \E s \in SlotIds : Apply(s)
    \/ \E s \in SlotIds : Finish(s)
    \/ Tick

SpecShuffle == InitShuffle /\ [][NextShuffle]_vars

\* Cleanup at work: some slots show a creative in several channels, some of
\* the messages have been removed in the chat by hand; the administrator
\* clears and deletes slots and the background removals run.
InitClear ==
    /\ slots = [s \in SlotIds |-> Slot(GroupOf(s), "fixed", TRUE, GoodCron, 0)]
    /\ creatives = [c \in CreativeIds |-> AdCreative(InitSlotOf(c), TRUE)]
    /\ channels = [c \in ChannelIds |-> Channel("active", TRUE)]
    /\ placements \in SUBSET {OldPlacement(ch, s, 1) : ch \in ChannelIds, s \in SlotIds}
    /\ idx_placements_channel_slot(placements)
    /\ NoDoubleContent(placements)
    /\ remote \in SUBSET {[chat |-> ChatOf(r.channel_id), mid |-> r.message_id]
                              : r \in placements}
    /\ nextMid = [c \in {ChatOf(ch) : ch \in ChannelIds} |->
                    MaxChannel * MaxSlot * MaxCreative + 1]
    /\ logs = <<>>
    /\ jobs = add_slot_jobs({}, enabled_slots)
    /\ syncs = <<>>
    /\ cyc = [s \in SlotIds |-> IdleCyc]
    /\ bg = <<>>
    /\ now = 0
    /\ steps = ClearSteps
    /\ perms = {}
    /\ call = IdleCall
    /\ InitBot

NextClear ==
    \/ \E s \in SlotIds : clear_slot(s)
    \/ \E s \in SlotIds : delete_slot(s)
    \/ \E t \in 1..Len(bg) : BackgroundUnpin(t)
    \/ \E t \in 1..Len(bg) : BackgroundDelete(t)

SpecClear == InitClear /\ [][NextClear]_vars

\* Deletion at work: as above with every message still in its chat; the
\* syncs the delete requests start run alongside the background removals.
InitDelete ==
    /\ InitClear
    /\ remote = {[chat |-> ChatOf(r.channel_id), mid |-> r.message_id]
                    : r \in placements}

NextDelete ==
    \/ \E s \in SlotIds : clear_slot(s)
    \/ \E s \in SlotIds : delete_slot(s)
    \/ \E t \in 1..Len(bg) : BackgroundUnpin(t)
    \/ \E t \in 1..Len(bg) : BackgroundDelete(t)
    \/ \E k \in 1..Len(syncs) : SyncRemove(k)
    \/ \E k \in 1..Len(syncs) : SyncAdd(k)

SpecDelete == InitDelete /\ [][NextDelete]_vars

\* Slot.delete_mode and Slot.delete_after_seconds as the administrator has
\* set them: the first slot deletes after a duration, the second by cron,
\* the others never
DeleteModeOf(s) == IF s = 1 THEN "after_seconds" ELSE IF s = 2 THEN "cron" ELSE "none"

DeleteAfterOf(s) == IF s = 1 THEN 1 ELSE NULL

\* The pool at work: the creatives of the first slot are enabled or not,
\* the last creative may be unbound, the first slot is fixed or random, and
\* in the first channel each slot may show a creative of the first slot's
\* pool; cycles fire while the administrator enables, disables, binds and
\* unbinds the creatives of the first slot.
InitPool ==
    /\ \E t1 \in {"fixed", "random"} :
         slots = [s \in SlotIds |->
                    [Slot(GroupOf(s), IF s = 1 THEN t1 ELSE "fixed", TRUE, GoodCron, 0)
                        EXCEPT !.delete_mode = DeleteModeOf(s),
                               !.delete_after_seconds = DeleteAfterOf(s)]]
    /\ \E e \in [FirstPool -> BOOLEAN], last \in {InitSlotOf(MaxCreative), NULL} :
         creatives = [c \in CreativeIds |->
                        AdCreative(IF c = MaxCreative THEN last ELSE InitSlotOf(c),
                                   IF c \in FirstPool THEN e[c] ELSE TRUE)]
    /\ channels = [c \in ChannelIds |-> Channel("active", TRUE)]
    /\ placements \in SUBSET {OldPlacement(1, 2, 1), OldPlacement(1, 1, 2)}
    /\ idx_placements_channel_slot(placements)
    /\ NoDoubleContent(placements)
    /\ remote = {[chat |-> ChatOf(r.channel_id), mid |-> r.message_id]
                    : r \in placements}
    /\ nextMid = [c \in {ChatOf(ch) : ch \in ChannelIds} |->
                    MaxChannel * MaxSlot * MaxCreative + 1]
    /\ logs = <<>>
    /\ jobs = add_slot_jobs({}, enabled_slots)
    /\ syncs = <<>>
    /\ cyc = [s \in SlotIds |-> IdleCyc]
    /\ bg = <<>>
    /\ now = 0
    /\ steps = PoolSteps
    /\ perms = {}
    /\ call = IdleCall
    /\ InitBot

NextPool ==
    \/ \E s \in SlotIds : Fire(s)
    \/ \E s \in SlotIds : Apply(s)
    \/ \E s \in SlotIds : Finish(s)
    \/ \E c \in FirstPool, enabled \in BOOLEAN : update_creative(c, enabled)
    \/ \E c \in FirstPool, s \in SlotIds : bind_creative_to_slot(c, s)
    \/ \E c \in FirstPool : unbind_creative(c)

SpecPool == InitPool /\ [][NextPool]_vars

\* Channels the bot has joined as administrator with all rights, as
\* administrator without one of them or as member, and channels it has
\* left; the status updates of Telegram arrive while the cycles run.
ChannelStates == {Channel("active", TRUE), Channel("active", FALSE),
                  Channel("left", FALSE)}

InitChannelsSpec ==
    /\ slots = [s \in SlotIds |->
                  [Slot(GroupOf(s), "fixed", TRUE, GoodCron, 0)
                      EXCEPT !.delete_mode = DeleteModeOf(s),
                             !.delete_after_seconds = DeleteAfterOf(s)]]
    /\ creatives = [c \in CreativeIds |-> AdCreative(InitSlotOf(c), TRUE)]
    /\ channels \in [ChannelIds -> ChannelStates]
    /\ placements \in SUBSET {OldPlacement(1, 1, 1)}
    /\ remote = {[chat |-> ChatOf(r.channel_id), mid |-> r.message_id]
                    : r \in placements}
    /\ nextMid = [c \in {ChatOf(ch) : ch \in ChannelIds} |->
                    MaxChannel * MaxSlot * MaxCreative + 1]
    /\ logs = <<>>
    /\ jobs = add_slot_jobs({}, enabled_slots)
    /\ syncs = <<>>
    /\ cyc = [s \in SlotIds |-> IdleCyc]
    /\ bg = <<>>
    /\ now = 0
    /\ steps = ChannelSteps
    /\ perms = {}
    /\ call = IdleCall
    /\ InitBot

NextChannels ==
    \/ \E s \in SlotIds : Fire(s)
    \/ \E s \in SlotIds : Apply(s)
    \/ \E s \in SlotIds : Finish(s)
    \/ \E ch \in ChannelIds, new_status \in ChatMemberStatuses, flags \in RequiredFlags :
          on_bot_channel_status_change(ch, new_status, flags)

SpecChannels == InitChannelsSpec /\ [][NextChannels]_vars

\* The same database with the administrator away: cycles fire, some over a
\* slot without an enabled creative, some over a channel where every
\* creative of the pool is shown by another slot.
InitSkip == InitPool

NextSkip ==
    \/ \E s \in SlotIds : Fire(s)
    \/ \E s \in SlotIds : Apply(s)
    \/ \E s \in SlotIds : Finish(s)

SpecSkip == InitSkip /\ [][NextSkip]_vars

\* The scheduler at work: the start-up sync is under way, the administrator
\* enables, disables, reschedules and deletes slots, and every such request
\* starts another sync.
InitSync ==
    /\ InitTables({"fixed"}, {0}, {})
    /\ jobs = {}
    /\ syncs = SpawnSync(<<>>, "lifespan")
    /\ cyc = [s \in SlotIds |-> IdleCyc]
    /\ bg = <<>>
    /\ now = 0
    /\ steps = SyncSteps
    /\ perms = {}
    /\ call = IdleCall
    /\ InitBot

NextSync ==
    \/ \E k \in 1..Len(syncs) : SyncRemove(k)
    \/ \E k \in 1..Len(syncs) : SyncAdd(k)
    \/ \E s \in SlotIds : enable_slot(s)
    \/ \E s \in SlotIds : disable_slot(s)
    \/ \E s \in SlotIds, cron \in CronExprs : update_slot(s, cron)
    \/ \E s \in SlotIds : delete_slot(s)

SpecSync == InitSync /\ [][NextSync]_vars

\* ---------------------------------------------------------------------------
\* Triggers that outlive their slot: the administrator disables and deletes
\* slots, the syncs these requests start run step by step, and the jobs still
\* in the scheduler fire in between.  No placement exists at the start, so a
\* delete finds no message to remove and starts no background work.
InitStale ==
    /\ InitPool
    /\ \A c \in CreativeIds : creatives[c].enabled
    /\ placements = {}

NextStale ==
    \/ \E s \in SlotIds : Fire(s)
    \/ \E s \in SlotIds : Apply(s)
    \/ \E s \in SlotIds : Finish(s)
    \/ \E s \in SlotIds : disable_slot(s)
    \/ \E s \in SlotIds : delete_slot(s)
    \/ \E k \in 1..Len(syncs) : SyncRemove(k)
    \/ \E k \in 1..Len(syncs) : SyncAdd(k)

SpecStale == InitStale /\ [][NextStale]_vars

\* ---------------------------------------------------------------------------
\* The rotation offset: fixed and random slots over pools of which any part
\* is enabled and groups of which any part is active; the triggers fire, the
\* cycles run, and the administrator disables slots in between.
InitRotation ==
    /\ \E t1 \in {"fixed", "random"} :
         slots = [s \in SlotIds |->
                    [Slot(GroupOf(s), IF s = 1 THEN t1 ELSE "fixed", TRUE, GoodCron, 0)
                        EXCEPT !.delete_mode = DeleteModeOf(s),
                               !.delete_after_seconds = DeleteAfterOf(s)]]
    /\ \E e \in [FirstPool -> BOOLEAN] :
         creatives = [c \in CreativeIds |->
                        AdCreative(InitSlotOf(c),
                                   IF c \in FirstPool THEN e[c] ELSE TRUE)]
    /\ channels \in [ChannelIds -> {Channel("active", TRUE), Channel("left", FALSE)}]
    /\ placements = {}
    /\ remote = {}
    /\ nextMid = [c \in {ChatOf(ch) : ch \in ChannelIds} |->
                    MaxChannel * MaxSlot * MaxCreative + 1]
    /\ logs = <<>>
    /\ jobs = add_slot_jobs({}, enabled_slots)
    /\ syncs = <<>>
    /\ cyc = [s \in SlotIds |-> IdleCyc]
    /\ bg = <<>>
    /\ now = 0
    /\ steps = PoolSteps
    /\ perms = {}
    /\ call = IdleCall
    /\ InitBot

NextRotation ==
    \/ \E s \in SlotIds : Fire(s)
    \/ \E s \in SlotIds : Apply(s)
    \/ \E s \in SlotIds : Finish(s)
    \/ \E s \in SlotIds : disable_slot(s)
    \/ \E k \in 1..Len(syncs) : SyncRemove(k)
    \/ \E k \in 1..Len(syncs) : SyncAdd(k)

SpecRotation == InitRotation /\ [][NextRotation]_vars

\* ---------------------------------------------------------------------------
\* Rotation over the day: a random slot with a pool that nobody changes, no
\* row of another slot in its channels, all channels active at the start;
\* the triggers fire again and again, the clock moves, and the bot is
\* removed from channels in between.
InitCoverage ==
    /\ InitTables({"fixed"}, {0, 1}, {})
    /\ jobs = add_slot_jobs({}, enabled_slots)
    /\ syncs = <<>>
    /\ cyc = [s \in SlotIds |-> IdleCyc]
    /\ bg = <<>>
    /\ now = 0
    /\ steps = MaxSteps
    /\ perms = {}
    /\ call = IdleCall
    /\ InitBot

NextCoverage ==
    \/ \E s \in SlotIds : Fire(s)
    \/ \E s \in SlotIds : Apply(s)
    \/ \E s \in SlotIds : Finish(s)
    \/ Tick
    \/ \E ch \in ChannelIds, new_status \in {"left", "kicked"}, flags \in RequiredFlags :
          on_bot_channel_status_change(ch, new_status, flags)

SpecCoverage == InitCoverage /\ [][NextCoverage]_vars

\* ---------------------------------------------------------------------------
\* Bot token requests: the process starts with or without a token, and the
\* requests of the administrator run step by step, one between the awaits
\* of the other.
InitReload ==
    /\ InitTables({"fixed"}, {0}, {})
    /\ jobs = {}
    /\ syncs = <<>>
    /\ cyc = [s \in SlotIds |-> IdleCyc]
    /\ bg = <<>>
    /\ now = 0
    /\ steps = 0
    /\ perms = {}
    /\ call = IdleCall
    /\ \E configured \in BOOLEAN :
          /\ bot = IF configured THEN 0 ELSE NULL
          /\ polling_task = IF configured THEN 0 ELSE NULL
          /\ tasks = [t \in TaskIds |-> IF t = 0 /\ configured THEN "running" ELSE "none"]
    /\ closed = {}
    /\ upd = [r \in UpdateIds |-> IdleUpd]

NextReload ==
    \/ \E r \in UpdateIds : update_bot_token(r)
    \/ \E r \in UpdateIds : polling_stopped(r)
    \/ \E r \in UpdateIds : session_closed(r)
    \/ \E r \in UpdateIds : webhook_deleted(r)
    \/ \E t \in TaskIds : PollingEnds(t)

SpecReload == InitReload /\ [][NextReload]_vars

\* One call of with_retry, with any max_retries from -1 up to MaxRetries or
\* the default, against any answers of Telegram.
InitRetry ==
    /\ InitTables({"fixed"}, {0}, {})
    /\ jobs = {}
    /\ syncs = <<>>
    /\ cyc = [s \in SlotIds |-> IdleCyc]
    /\ bg = <<>>
    /\ now = 0
    /\ steps = 0
    /\ perms = {}
    /\ call = IdleCall
    /\ InitBot

NextRetry ==
    \/ \E m \in (-1..MaxRetries) \cup {DEFAULT_MAX_RETRIES} : RetryCall(m)
    \/ \E e \in Outcomes : RetryAttempt(e)
    \/ RetrySleep
    \/ \E verb \in SafeVerbs : SafeCall(verb)
    \/ SafeReturn

SpecRetry == InitRetry /\ [][NextRetry]_vars

\* ------------------------------------------------------------------ typing
TypeOK ==
    /\ \A r \in placements : r.channel_id \in ChannelIds /\ r.slot_id \in SlotIds
    /\ now \in 0..MaxNow

\* ------------------------------------------------- properties of the cycle
\* the step is a turn of the cycle of slot s over its next channel
TurnOf(s) ==
    /\ cyc[s].pc = "run"
    /\ cyc[s].i < Len(cyc[s].chans)
    /\ cyc'[s] # cyc[s]

ChannelOf(s) == cyc[s].chans[cyc[s].i + 1]

\* the active row with a message the turn finds for its channel
OldRows(s) ==
    {r \in SessionRows(s) : /\ r.channel_id = ChannelOf(s) /\ r.slot_id = s
                            /\ r.deleted_at = NULL /\ r.message_id # NULL}

LastLog(s) == cyc'[s].plogs[Len(cyc'[s].plogs)]

\* the turn has left a publish record for its channel in the session
PublishAttempted(s) ==
    /\ Len(cyc'[s].plogs) = Len(cyc[s].plogs) + 1
    /\ LastLog(s).channel_id = ChannelOf(s)
    /\ LastLog(s).slot_id = s

\* the turn has left the pair of its channel with a placement of the message
\* the gateway has just returned
PublishedRows(s) ==
    {q \in cyc'[s].pend : /\ q.channel_id = ChannelOf(s) /\ q.slot_id = s
                          /\ q.deleted_at = NULL
                          /\ q.message_id = nextMid[ChatOf(ChannelOf(s))]}

ActiveRows(ch, s) ==
    {r \in placements : r.channel_id = ch /\ r.slot_id = s /\ r.deleted_at = NULL}

\* C1: for every channel and every slot the placements table holds at most
\* one row with deleted_at NULL.
C1_AtMostOneActive ==
    \A ch \in ChannelIds, s \in SlotIds : Cardinality(ActiveRows(ch, s)) <= 1

\* a cycle has committed over a pair it superseded while another pair of the
\* same channel is still active
C1_Witness ==
    /\ logs # <<>>
    /\ \E ch \in ChannelIds, s1, s2 \in SlotIds :
         /\ Cardinality(ActiveRows(ch, s1)) = 1
         /\ \E r \in placements : /\ r.channel_id = ch /\ r.slot_id = s2
                                  /\ r.deleted_at # NULL

\* C3: once no cycle runs, every message that exists in a chat is the
\* message of an active placement or is queued for background removal.
C3_NoOrphans ==
    (\A s \in SlotIds : cyc[s].pc = "idle") =>
        \A m \in remote :
            \/ \E r \in placements : /\ r.deleted_at = NULL
                                     /\ ChatOf(r.channel_id) = m.chat
                                     /\ r.message_id = m.mid
            \/ \E t \in DOMAIN bg : \E k \in DOMAIN bg[t].todo : bg[t].todo[k] = m

\* C5: the rotation offset of a slot changes only on the step that completes
\* a random cycle of the slot, and then to (old + 1) mod N, N the number of
\* enabled creatives the cycle loaded; the completing step of a random cycle
\* that commits always makes this change.
C5_RotationAdvance ==
    [][\A s \in SlotIds :
         (slots[s].exists /\ slots'[s].exists) =>
            IF /\ cyc[s].pc = "run" /\ cyc'[s].pc = "idle"
               /\ cyc[s].slot_type = "random"
            THEN /\ cyc[s].n >= 1
                 /\ Len(cyc[s].chans) >= 1
                 /\ cyc[s].i = Len(cyc[s].chans)
                 /\ slots'[s].rotation_offset =
                        (slots[s].rotation_offset + 1) % cyc[s].n
            ELSE slots'[s].rotation_offset = slots[s].rotation_offset]_vars

\* a random cycle whose every channel failed has committed and wrapped the
\* offset round to 0
C5_Witness ==
    \E s \in SlotIds :
        /\ slots[s].exists /\ slots[s].slot_type = "random"
        /\ slots[s].rotation_offset = 0
        /\ cyc[s].pc = "idle"
        /\ \E k \in DOMAIN logs : logs[k].slot_id = s /\ logs[k].status = "failed"

\* C7: a turn that finds an active placement with a message leaves the row
\* with deleted_at set (or republished with another message) whether or not
\* the old message could be removed, and goes on to attempt the publish.
C7_ReplaceBestEffort ==
    [][\A s \in SlotIds :
         (TurnOf(s) /\ select_creative(s) # NULL /\ OldRows(s) # {}) =>
            /\ PublishAttempted(s)
            /\ \A r \in OldRows(s) : \E q \in cyc'[s].pend :
                  /\ q.id = r.id
                  /\ q.deleted_at # NULL \/ q.message_id # r.message_id]_vars

\* the removal has failed (the old message is still in the chat), the row
\* is marked and the publish has been attempted
C7_Witness ==
    \E s \in SlotIds : \E q \in cyc[s].pend :
        /\ q.deleted_at # NULL
        /\ [chat |-> ChatOf(q.channel_id), mid |-> q.message_id] \in remote
        /\ \E k \in DOMAIN cyc[s].plogs : cyc[s].plogs[k].channel_id = q.channel_id

\* C8: a turn in which the gateway accepts the message leaves the pair with
\* an active placement of the selected creative, the returned message id,
\* is_pinned TRUE and published_at set.
C8_PlacementRecorded ==
    [][\A s \in SlotIds :
         (TurnOf(s) /\ nextMid' # nextMid) =>
            \E q \in PublishedRows(s) :
                /\ q.creative_id = select_creative(s)
                /\ q.is_pinned
                /\ q.published_at # NULL]_vars

\* C9: a turn that does not end in a published placement appends a failed
\* publish record for its channel and the cycle moves to the next channel;
\* a cycle ends only after its last channel, and its commit adds the records
\* of the session to operation_logs.
C9_FailureIsolation ==
    [][\A s \in SlotIds :
         /\ (TurnOf(s) /\ select_creative(s) # NULL /\ PublishedRows(s) = {}) =>
               /\ cyc'[s].pc = "run"
               /\ cyc'[s].i = cyc[s].i + 1
               /\ cyc'[s].chans = cyc[s].chans
               /\ cyc'[s].plogs =
                     Append(cyc[s].plogs,
                            OperationLog(ChannelOf(s), s, select_creative(s),
                                         NULL, "failed"))
         /\ (cyc[s].pc = "run" /\ cyc'[s].pc = "idle") =>
               /\ cyc[s].i = Len(cyc[s].chans)
               /\ ~CommitFails(s) => logs' = logs \o cyc[s].plogs]_vars

\* the first channel of a cycle has failed and the second has been processed
C9_Witness ==
    \E s \in SlotIds :
        /\ cyc[s].pc = "run"
        /\ cyc[s].i = 2
        /\ Len(cyc[s].plogs) = 2
        /\ cyc[s].plogs[1].status = "failed"
        /\ cyc[s].plogs[1].channel_id = cyc[s].chans[1]
        /\ cyc[s].plogs[2].channel_id = cyc[s].chans[2]

\* ---------------------------------------------- properties of the selection
\* the creatives other slots show in channel ch (committed, active rows)
ShownByOthers(ch, s) ==
    {r.creative_id : r \in {x \in placements : /\ x.channel_id = ch
                                              /\ x.slot_id # s
                                              /\ x.deleted_at = NULL}}

\* the first item of order, walking cyclically from index start, that is not
\* in excluded; NULL when every item is
FirstFree(order, start, excluded) ==
    LET n == Len(order)
        hits == {k \in 0..(n - 1) : order[((start + k) % n) + 1] \notin excluded}
    IN IF hits = {} THEN NULL ELSE order[((start + Min(hits)) % n) + 1]

\* the turn has taken creative c for its channel (none when c is NULL)
Chosen(s, c) ==
    IF c = NULL THEN cyc'[s].plogs = cyc[s].plogs
    ELSE PublishAttempted(s) /\ LastLog(s).creative_id = c

C4_SameStart ==
    [][\A s \in SlotIds :
         (TurnOf(s) /\ cyc[s].slot_type = "random") =>
            Chosen(s, FirstFree(cyc[s].pool, slots[s].rotation_offset,
                                ShownByOthers(ChannelOf(s), s)))]_vars

\* C4 amended: the turn over the i-th channel of the cycle (i counted from
\* 0) walks from index rotation_offset + i.
C4_StartPerChannel ==
    [][\A s \in SlotIds :
         (TurnOf(s) /\ cyc[s].slot_type = "random") =>
            Chosen(s, FirstFree(cyc[s].pool, slots[s].rotation_offset + cyc[s].i,
                                ShownByOthers(ChannelOf(s), s)))]_vars

\* a random cycle over two channels: another slot shows in the first channel
\* the item at the start index, and the turn has taken a different one
C4_Witness ==
    \E s \in SlotIds :
        /\ cyc[s].pc = "run" /\ cyc[s].slot_type = "random"
        /\ cyc[s].i = 2 /\ Len(cyc[s].plogs) = 2
        /\ \E r \in placements :
             /\ r.deleted_at = NULL /\ r.slot_id # s
             /\ r.channel_id = cyc[s].chans[1]
             /\ r.creative_id = cyc[s].pool[(cyc[s].off % Len(cyc[s].pool)) + 1]
             /\ cyc[s].plogs[1].creative_id # r.creative_id
             /\ cyc[s].plogs[1].creative_id \in Range(cyc[s].pool)

LiveSlots(tab) ==
    {s \in SlotIds : /\ tab[s].exists /\ tab[s].enabled
                     /\ ~parse_cron(tab[s].publish_cron).raised}

VisitOrders(S) ==
    {f \in [1..Cardinality(S) -> S] : \A a, b \in DOMAIN f : f[a] = f[b] => a = b}

EnabledSet == {s \in SlotIds : slots[s].exists /\ slots[s].enabled}

\* C11: the step that ends a sync registers the job of every enabled slot it
\* has read with a well-formed cron expression and adds no job for a slot
\* whose expression is malformed, in whatever order it visits the slots.
C11_MalformedSkipped ==
    [][\A k \in DOMAIN syncs :
         SyncAdd(k) =>
            \E rows \in Reads(k) :
                /\ \A order \in VisitOrders(Range(rows)) :
                      add_slot_jobs(jobs, order) = jobs'
                /\ \A slot \in Range(rows) :
                      IF parse_cron(slot.publish_cron).raised
                      THEN {j \in jobs' : j.args = slot.id} \subseteq jobs
                      ELSE \E j \in jobs' :
                              /\ j.args = slot.id /\ j.id = job_id(slot.id)
                              /\ j.trigger = parse_cron(slot.publish_cron)]_vars

\* every sync is done: the first slot is enabled with a malformed expression
\* and has no job, a slot visited after it has its job
C11_Witness ==
    /\ syncs = <<>>
    /\ \E s1, s2 \in SlotIds :
         /\ s1 < s2
         /\ slots[s1].exists /\ slots[s1].enabled
         /\ parse_cron(slots[s1].publish_cron).raised
         /\ ~\E j \in jobs : j.args = s1
         /\ slots[s2].exists /\ slots[s2].enabled
         /\ \E j \in jobs : j.args = s2

\* the step is a step of a sync: its removal of the jobs or its completion
SyncStep ==
    \E k \in DOMAIN syncs :
        \/ syncs[k].pc = "spawned" /\ syncs' = [syncs EXCEPT ![k].pc = "removed"]
        \/ /\ syncs[k].pc = "removed"
           /\ syncs' = DropAt(IF syncs[k].dirty THEN Taint(syncs) ELSE syncs, k)

\* C12: a step of a sync changes nothing a running cycle reads or writes
\* (the cycles, the tables, the chats), and a running cycle can always take
\* its next step, whether or not its job is in the job store.
C12_SyncLeavesCycle ==
    /\ [][SyncStep => UNCHANGED <<cyc, slots, creatives, channels, placements,
                                  logs, remote, nextMid>>]_vars
    /\ [](\A s \in SlotIds :
            cyc[s].pc = "run" => ENABLED (Apply(s) \/ Finish(s)))

\* the cycle of a slot has gone through all its channels although a sync has
\* taken its job out of the job store since it started
C12_Witness ==
    \E s \in SlotIds :
        /\ cyc[s].pc = "run"
        /\ cyc[s].i = Len(cyc[s].chans)
        /\ cyc[s].plogs # <<>>
        /\ slots[s].exists
        /\ ~\E j \in jobs : j.args = s

\* the step completes a sync during which no stored slot has changed
CleanSyncDone ==
    \E k \in DOMAIN syncs :
        /\ syncs[k].pc = "removed" /\ ~syncs[k].dirty
        /\ syncs' = DropAt(syncs, k)

C14_RetryBounded ==
    call.pc # "idle" =>
        /\ Len(call.outs) <= call.max_retries + 1
        /\ call.pc = "try" => Len(call.outs) = call.attempt
        /\ call.pc = "returned" =>
              \/ call.outs = <<>>
              \/ call.outs[Len(call.outs)].kind = "ok"
        /\ call.pc = "raised" =>
              /\ \A k \in DOMAIN call.outs : call.outs[k].kind # "ok"
              /\ call.raised = call.outs[Len(call.outs)]

\* every one of max_retries + 1 >= 2 invocations has failed, some on a
\* rate limit and some on a transient error, and the last error is raised
C14_Witness ==
    /\ call.pc = "raised"
    /\ call.max_retries >= 1
    /\ Len(call.outs) = call.max_retries + 1
    /\ \E k \in DOMAIN call.outs : call.outs[k].kind = "retry_after"
    /\ \E k \in DOMAIN call.outs : call.outs[k].kind = "api"
    /\ call.raised = call.outs[Len(call.outs)]

\* C15: the invocation that follows a rate-limit signal with wait W is made
\* W + 1 seconds after the one that received the signal; when it succeeds
\* the call returns without another invocation.
C15_RateLimitWait ==
    \A k \in DOMAIN call.outs :
        (call.outs[k].kind = "retry_after" /\ k < Len(call.outs)) =>
            /\ call.times[k + 1] = call.times[k] + call.outs[k].retry_after + 1
            /\ call.times[k + 1] >= call.times[k] + call.outs[k].retry_after
            /\ call.outs[k + 1].kind = "ok" =>
                  call.pc = "returned" /\ Len(call.outs) = k + 1

\* the first invocation was rate limited with the longest wait, the second
\* one succeeded: two invocations, the call has returned
C15_Witness ==
    /\ call.pc = "returned"
    /\ Len(call.outs) = 2
    /\ call.outs[1] = TelegramRetryAfter(MaxWait)
    /\ call.times = <<0, MaxWait + 1>>

\* C16: an invocation that ends with a permanent error is the last one: the
\* call raises that error at once, without a sleep.
C16_NoRetryOnPermanent ==
    \A k \in DOMAIN call.outs :
        call.outs[k].permanent =>
            /\ k = Len(call.outs)
            /\ call.pc = "raised"
            /\ call.raised = call.outs[k]
            /\ call.clock = call.times[k]
\* C17: delete_message_safe and unpin_message_safe, when Telegram answers
\* that the message is not found, return True and raise nothing.
C17_IdempotentRemoval ==
    (/\ call.verb \in SafeVerbs
     /\ call.safe # "none"
     /\ call.raised = MessageNotFound) => call.safe = "True"

\* delete_message_safe has returned True on a message that was not found
C17_DeleteWitness ==
    /\ call.verb = "delete_message"
    /\ call.raised = MessageNotFound
    /\ call.safe = "True"

\* C17, the half the code keeps: delete_message_safe returns True when
\* Telegram answers that the message is not found.
C17_DeleteIdempotent ==
    (/\ call.verb = "delete_message"
     /\ call.safe # "none"
     /\ call.raised = MessageNotFound) => call.safe = "True"

\* --------------------------------------------- properties of the cleanup
\* the active rows of a slot, with or without a message
ActiveOf(rows, s) == {r \in rows : r.slot_id = s /\ r.deleted_at = NULL}

MessageOf(r) == [chat |-> ChatOf(r.channel_id), mid |-> r.message_id]

Items(seq) == {seq[k] : k \in DOMAIN seq}

\* C18: a clear of a slot with n active placements leaves every one of them
\* with deleted_at set to the time of the request, leaves no active
\* placement of the slot, and starts one background task that holds exactly
\* the n (chat, message) pairs of these placements, each once; with n = 0 no
\* task is started.
C18_ClearMarksAndEnqueues ==
    [][\A s \in SlotIds :
         clear_slot(s) =>
            LET was == ActiveOf(placements, s)
                n == Cardinality(was)
            IN /\ ActiveOf(placements', s) = {}
               /\ \A r \in was :
                     [r EXCEPT !.deleted_at = now] \in placements'
               /\ Cardinality(placements') = Cardinality(placements)
               /\ IF n = 0 THEN bg' = bg
                  ELSE /\ Len(bg') = Len(bg) + 1
                       /\ SubSeq(bg', 1, Len(bg)) = bg
                       /\ Len(bg'[Len(bg')].todo) = n
                       /\ Items(bg'[Len(bg')].todo) = {MessageOf(r) : r \in was}
                       /\ Cardinality({MessageOf(r) : r \in was}) = n]_vars

\* a slot had active placements in two channels and was cleared: both rows
\* carry deleted_at and one task holds their two messages
C18_Witness ==
    \E s \in SlotIds :
        /\ slots[s].exists
        /\ Cardinality({r \in placements : r.slot_id = s /\ r.deleted_at # NULL}) >= 2
        /\ ActiveOf(placements, s) = {}
        /\ \E t \in DOMAIN bg :
              /\ Len(bg[t].todo) >= 2
              /\ Items(bg[t].todo) =
                    {MessageOf(r) : r \in {x \in placements : x.slot_id = s}}

\* the step is a step of a background removal
BackgroundStep == \E t \in DOMAIN bg : BackgroundUnpin(t) \/ BackgroundDelete(t)

\* C19: a step of a background removal, whatever the gateway has answered,
\* leaves the placements as the request committed them, writes no operation
\* log and changes nothing else of the database; only the task itself and
\* the messages of the chat change.
C19_BackgroundFrame ==
    [][BackgroundStep =>
         /\ placements' = placements
         /\ logs' = logs
         /\ slots' = slots
         /\ creatives' = creatives
         /\ channels' = channels
         /\ steps' = steps]_vars

\* a background delete was refused: the message of a cleared placement is
\* still in the chat, no task holds it any more, and the row is still marked
C19_Witness ==
    \E r \in placements :
        /\ r.deleted_at # NULL
        /\ MessageOf(r) \in remote
        /\ \A t \in DOMAIN bg : MessageOf(r) \notin Items(bg[t].todo)
        /\ logs = <<>>

\* the step has changed task t or has ended a task
StepOf(t) == Len(bg') # Len(bg) \/ bg'[t] # bg[t]

NewMessage(s) == nextMid[ChatOf(ChannelOf(s))]

\* the turn is one in which Telegram has accepted the message
Sent(s) == TurnOf(s) /\ nextMid' # nextMid

\* C22: a turn that takes a creative adds exactly one publish record to the
\* session, for its channel, slot and creative: with status success and the
\* id of the new message when Telegram has accepted the message, with status
\* failed when it has not; a turn that skips its channel adds none; the
\* records of operation_logs are only ever added to.
C22_OneAuditRecord ==
    /\ [][\A s \in SlotIds :
            TurnOf(s) =>
               IF select_creative(s) = NULL
               THEN cyc'[s].plogs = cyc[s].plogs
               ELSE /\ PublishAttempted(s)
                    /\ SubSeq(cyc'[s].plogs, 1, Len(cyc[s].plogs)) = cyc[s].plogs
                    /\ LastLog(s).creative_id = select_creative(s)
                    /\ IF Sent(s)
                       THEN /\ LastLog(s).status = "success"
                            /\ LastLog(s).message_id = NewMessage(s)
                       ELSE LastLog(s).status = "failed"]_vars
    /\ [][SubSeq(logs', 1, Len(logs)) = logs]_vars

\* position a comes before position b wherever both occur
Before(q, a, b) ==
    \A i, j \in DOMAIN q : (q[i] = a /\ q[j] = b) => i < j

TurnWith(s, gw) ==
    /\ TurnOf(s)
    /\ select_creative(s) # NULL
    /\ publish_to_channel_with_dedup(s, ChannelOf(s), select_creative(s), gw)

\* C30: a turn in which Telegram accepts the message and refuses the pin
\* leaves the pair with an active placement of the new message with
\* is_pinned TRUE, and its publish record has status success.
C30_PinFailureTolerated ==
    [][\A s \in SlotIds : \A gw \in GwOutcomes :
         (gw.send /\ ~gw.pin /\ TurnWith(s, gw)) =>
            /\ \E q \in PublishedRows(s) : q.is_pinned
            /\ PublishAttempted(s)
            /\ LastLog(s).status = "success"]_vars

\* ------------------------------------------------ properties of the pool
\* the creatives that exist, are enabled and are bound to slot s
EnabledBound(s) ==
    {c \in CreativeIds : /\ creatives[c].exists
                         /\ creatives[c].enabled
                         /\ creatives[c].slot_id = s}

\* the step starts a cycle of slot s
Starts(s) == cyc[s].pc = "idle" /\ cyc'[s].pc = "run"

C25_EmptyPoolSkipped ==
    /\ [][\A s \in SlotIds :
            (Fire(s) /\ EnabledBound(s) = {}) =>
                /\ cyc' = cyc
                /\ placements' = placements
                /\ logs' = logs
                /\ remote' = remote
                /\ nextMid' = nextMid
                /\ slots' = slots
                /\ call' = call
                /\ bg' = bg]_vars
    /\ [](\A s \in SlotIds :
            cyc[s].pc = "run" => cyc[s].n >= 1 /\ cyc[s].pool # <<>>)

\* both triggers have fired, each over a slot that has its jobs and no
\* enabled creative, and nothing was written
C25_Witness ==
    /\ steps = 0
    /\ \A s \in SlotIds : cyc[s] = IdleCyc
    /\ logs = <<>>
    /\ \A r \in placements : r.deleted_at = NULL
    /\ \E s \in SlotIds : /\ slots[s].exists /\ slots[s].enabled
                          /\ slots[s].slot_type = "random"
                          /\ EnabledBound(s) = {}

\* C26: the turn of a random slot over a channel where every creative of
\* the pool is shown by another slot leaves the rows of the session, the
\* messages of Telegram and the publish records as they were, asks Telegram
\* for nothing, and moves on to the next channel.
C26_AllExcludedSkipsChannel ==
    [][\A s \in SlotIds :
         (TurnOf(s) /\ cyc[s].slot_type = "random"
                    /\ Range(cyc[s].pool) \subseteq ShownByOthers(ChannelOf(s), s)) =>
             /\ cyc'[s].pend = cyc[s].pend
             /\ cyc'[s].plogs = cyc[s].plogs
             /\ cyc'[s].reqs = <<>>
             /\ remote' = remote
             /\ nextMid' = nextMid
             /\ placements' = placements
             /\ cyc'[s].i = cyc[s].i + 1
             /\ cyc'[s].pc = "run"]_vars

\* a random cycle has passed its first channel, where another slot shows the
\* only creative of the pool and the slot's own row is still active, and has
\* published to the second
C26_Witness ==
    \E s \in SlotIds :
        /\ cyc[s].pc = "run"
        /\ cyc[s].slot_type = "random"
        /\ cyc[s].i = 2
        /\ Range(cyc[s].pool) \subseteq ShownByOthers(cyc[s].chans[1], s)
        /\ Len(cyc[s].plogs) = 1
        /\ cyc[s].plogs[1].channel_id = cyc[s].chans[2]
        /\ \E r \in SessionRows(s) : /\ r.channel_id = cyc[s].chans[1]
                                  /\ r.slot_id = s /\ r.deleted_at = NULL
                                  /\ Exists(remote, ChatOf(r.channel_id), r.message_id)

\* C28: the pool a cycle of slot s starts with holds only creatives that
\* exist, are enabled and are bound to s at that step; the pool stays as
\* loaded while the cycle runs; every publish of the cycle is of a creative
\* of this pool.
C28_OnlyEnabledBound ==
    /\ [][\A s \in SlotIds :
            Starts(s) => /\ Range(cyc'[s].pool) \subseteq EnabledBound(s)
                         /\ cyc'[s].pool # <<>>]_vars
    /\ [][\A s \in SlotIds :
            (cyc[s].pc = "run" /\ cyc'[s].pc = "run") =>
                cyc'[s].pool = cyc[s].pool]_vars
    /\ [][\A s \in SlotIds :
            (TurnOf(s) /\ Len(cyc'[s].plogs) # Len(cyc[s].plogs)) =>
                /\ PublishAttempted(s)
                /\ LastLog(s).creative_id \in Range(cyc[s].pool)]_vars

\* a cycle has published a creative of its pool that the administrator has
\* disabled or taken from the slot after the pool was loaded
C28_Witness ==
    \E s \in SlotIds :
        /\ cyc[s].pc = "run"
        /\ cyc[s].plogs # <<>>
        /\ cyc[s].plogs[1].creative_id \in Range(cyc[s].pool)
        /\ cyc[s].plogs[1].creative_id \notin EnabledBound(s)

\* the delete time the policy of slot s gives a message published at t
PolicyDeleteAt(s, t) ==
    CASE slots[s].delete_mode = "none" -> NULL
      [] slots[s].delete_mode = "cron" -> NULL
      [] slots[s].delete_mode = "after_seconds" ->
             t + slots[s].delete_after_seconds

\* C23: every turn in which Telegram accepts the message leaves the pair
\* with an active placement of the new message, published now, whose
\* scheduled_delete_at is NULL under the policies none and cron and
\* published_at + delete_after_seconds under after_seconds.
C23_ScheduledDeleteFollowsPolicy ==
    [][\A s \in SlotIds :
         Sent(s) =>
            \E q \in PublishedRows(s) :
                /\ q.published_at = now
                /\ q.scheduled_delete_at = PolicyDeleteAt(s, q.published_at)]_vars

\* the turn has asked Telegram for something or has written a placement
Acts(s) ==
    \/ cyc'[s].reqs # <<>>
    \/ cyc'[s].pend # cyc[s].pend
    \/ remote' # remote

\* C27: every turn that asks Telegram for a send, a pin or a removal, or
\* writes a placement, is for a channel whose status is active and whose
\* permissions_ok is TRUE; the channels a cycle starts with are all such.
C27_OnlyPermittedChannels ==
    /\ [][\A s \in SlotIds :
            Starts(s) =>
               \A ch \in Range(cyc'[s].chans) :
                   /\ channels[ch].status = "active"
                   /\ channels[ch].permissions_ok]_vars
    /\ [][\A s \in SlotIds :
            (TurnOf(s) /\ Acts(s)) =>
                /\ channels[ChannelOf(s)].status = "active"
                /\ channels[ChannelOf(s)].permissions_ok]_vars

\* ---------------------------------------------- properties of the pair's row
\* the rows of the pair (ch, s) among rows
PairRows(rows, ch, s) == {r \in rows : r.channel_id = ch /\ r.slot_id = s}

\* the rows the session of slot s sees after the step
SessionRowsAfter(s) ==
    {r \in placements' : \A q \in cyc'[s].pend : q.id # r.id} \cup cyc'[s].pend

\* C31: the placements table never holds more than one row of a pair,
\* active or not; a turn never removes or replaces the row of its pair and
\* leaves the pair with at most one row; it creates a row only when the pair
\* had none and the publish succeeded; every row of the table was created
\* by a turn of a cycle.
C31_OneRowPerPair ==
    /\ [](\A ch \in ChannelIds, s \in SlotIds :
            Cardinality(PairRows(placements, ch, s)) <= 1)
    /\ [][\A s \in SlotIds :
            (TurnOf(s) /\ select_creative(s) # NULL) =>
                LET old == PairRows(SessionRows(s), ChannelOf(s), s)
                    new == PairRows(SessionRowsAfter(s), ChannelOf(s), s)
                IN /\ Cardinality(new) <= 1
                   /\ {r.id : r \in old} \subseteq {r.id : r \in new}
                   /\ {r.id : r \in new} # {r.id : r \in old} =>
                         /\ old = {}
                         /\ PublishAttempted(s)
                         /\ LastLog(s).status = "success"]_vars
    /\ [][{r.id : r \in placements'} \subseteq
            {r.id : r \in placements \cup UNION {cyc[s].pend : s \in SlotIds}}]_vars

\* a cycle has failed to publish to a channel where its slot has no row, and
\* has none there afterwards; in the other channel it has marked, in place,
\* the row the table still shows active
C31_Witness ==
    \E s \in SlotIds :
        /\ cyc[s].pc = "run"
        /\ Len(cyc[s].plogs) = 2
        /\ cyc[s].plogs[2].status = "failed"
        /\ PairRows(SessionRows(s), cyc[s].plogs[2].channel_id, s) = {}
        /\ \E q \in cyc[s].pend, r \in placements :
              /\ q.channel_id = cyc[s].plogs[1].channel_id
              /\ q.slot_id = s
              /\ q.deleted_at # NULL
              /\ r.id = q.id
              /\ r.deleted_at = NULL

\* the rows of the other slots among rows
RowsOfOthers(rows, s) == {r \in rows : r.slot_id # s}

\* C32: a cycle holds in its session only rows of its own slot, and its
\* commit leaves the rows of every other slot in the table as they were,
\* also while the cycle of another slot that publishes to the same channel
\* is under way; the turns of a cycle write nothing to the table.
C32_OwnRowsOnly ==
    /\ [](\A s \in SlotIds : \A q \in cyc[s].pend : q.slot_id = s)
    /\ [][\A s \in SlotIds :
            (cyc[s].pc = "run" /\ cyc'[s] # cyc[s]) =>
                /\ RowsOfOthers(placements', s) = RowsOfOthers(placements, s)
                /\ \A o \in SlotIds \ {s} : cyc'[o] = cyc[o]
                /\ cyc'[s].pc = "run" => placements' = placements]_vars

\* the cycles of two slots are under way at once and each has marked, in
\* its session, its own row of the same channel; the table shows both rows
\* as they were
C32_Witness ==
    \E s, o \in SlotIds :
        /\ s # o
        /\ cyc[s].pc = "run"
        /\ cyc[o].pc = "run"
        /\ \E q \in cyc[s].pend, x \in cyc[o].pend :
              /\ q.channel_id = x.channel_id
              /\ q.deleted_at # NULL /\ x.deleted_at # NULL
              /\ \E r \in placements : r.id = q.id /\ r.deleted_at = NULL
              /\ \E r \in placements : r.id = x.id /\ r.deleted_at = NULL

\* the creatives the active rows of slot s show in channel ch
ShownBy(rows, ch, s) ==
    {r.creative_id : r \in {x \in rows : /\ x.channel_id = ch /\ x.slot_id = s
                                         /\ x.deleted_at = NULL}}

\* C33: a turn that finds an active row with a message and whose publish
\* fails leaves the row in the session with deleted_at set and with the
\* creative and the message it had, and the pair without an active row; the
\* commit of the cycle writes the row so to the table, where the pair shows
\* no creative to the selection of the other slots.
C33_FailedPublishLeavesNoActive ==
    /\ [][\A s \in SlotIds :
            (TurnOf(s) /\ OldRows(s) # {} /\ PublishAttempted(s)
                       /\ LastLog(s).status = "failed") =>
                /\ \A r \in OldRows(s) :
                      \E q \in cyc'[s].pend :
                          /\ q.id = r.id
                          /\ q.deleted_at # NULL
                          /\ q.creative_id = r.creative_id
                          /\ q.message_id = r.message_id
                /\ ShownBy(SessionRowsAfter(s), ChannelOf(s), s) = {}]_vars
    /\ [][\A s \in SlotIds :
            (cyc[s].pc = "run" /\ cyc'[s].pc = "idle" /\ ~CommitFails(s)) =>
                \A q \in cyc[s].pend :
                    /\ q \in placements'
                    /\ q.deleted_at # NULL =>
                          ShownBy(placements', q.channel_id, s) = {}]_vars

\* the publish of a fixed slot has failed over its active row and the cycle
\* has committed: the row is marked, with its creative and its message; the
\* random slot has since taken this creative for the same channel
C33_Witness ==
    \E s, o \in SlotIds : \E r \in placements :
        /\ s # o
        /\ r.slot_id = s
        /\ r.deleted_at # NULL
        /\ r.message_id # NULL
        /\ \E k \in DOMAIN logs : /\ logs[k].slot_id = s
                                  /\ logs[k].channel_id = r.channel_id
                                  /\ logs[k].status = "failed"
        /\ cyc[o].slot_type = "random"
        /\ \E k \in DOMAIN cyc[o].plogs :
              /\ cyc[o].plogs[k].channel_id = r.channel_id
              /\ cyc[o].plogs[k].creative_id = r.creative_id

\* C35: overlapping syncs converge. Once every sync that the successive
\* changes of the slots have started has ended, the jobs of the scheduler
\* are the jobs of the enabled slots as they are stored: no job that was
\* built from an earlier read of the slots is left.
C35_SyncsConverge ==
    syncs = <<>> => jobs = add_slot_jobs({}, enabled_slots)

\* C34: the trigger of a slot that is disabled or deleted when it fires
\* asks Telegram for nothing and leaves the placements, the publish records,
\* the slots with their rotation_offset, the messages of Telegram and the
\* cycles as they were; no cycle ever starts for such a slot.
C34_StaleTriggerInert ==
    /\ [][\A s \in SlotIds :
            (Fire(s) /\ (~slots[s].exists \/ ~slots[s].enabled)) =>
                /\ cyc' = cyc
                /\ placements' = placements
                /\ logs' = logs
                /\ slots' = slots
                /\ remote' = remote
                /\ nextMid' = nextMid
                /\ call' = call
                /\ bg' = bg]_vars
    /\ [][\A s \in SlotIds :
            Starts(s) => slots[s].exists /\ slots[s].enabled]_vars

\* a slot with an enabled creative was disabled, the sync of that request
\* has not yet removed its job, the one trigger that fired found no slot it
\* could publish for, and nothing was written
C34_Witness ==
    /\ steps = 0
    /\ \A s \in SlotIds : cyc[s] = IdleCyc
    /\ logs = <<>>
    /\ Len(syncs) = 1 /\ syncs[1].pc = "spawned"
    /\ \E s, o \in SlotIds :
          /\ s # o
          /\ slots[s].exists /\ ~slots[s].enabled
          /\ slots[s].slot_type = "fixed" /\ EnabledBound(s) # {}
          /\ \E j \in jobs : j.args = s
          /\ slots[o].exists /\ slots[o].enabled
          /\ slots[o].slot_type = "fixed" /\ EnabledBound(o) # {}

\* the active channels of the group of a slot, as stored
ActiveOfGroup(s) ==
    {c \in GroupMembers[slots[s].group_id] : channels[c].status = "active"}

\* C36: the rotation_offset of a slot changes only in the step that ends a
\* cycle of a random slot which had at least one enabled creative and at
\* least one active channel, and then to the offset the cycle loaded plus
\* one, modulo the size of its pool; the trigger of a disabled slot, of a slot
\* with no enabled creative or of a slot with no active channel starts no
\* cycle and leaves every slot as it was.
C36_OffsetOnlyAfterRandomCycle ==
    /\ [][\A s \in SlotIds :
            (/\ slots[s].exists /\ slots'[s].exists
             /\ slots'[s].rotation_offset # slots[s].rotation_offset) =>
                /\ cyc[s].pc = "run" /\ cyc'[s].pc = "idle"
                /\ cyc[s].slot_type = "random"
                /\ slots[s].slot_type = "random"
                /\ cyc[s].n >= 1
                /\ cyc[s].chans # <<>>
                /\ cyc[s].i = Len(cyc[s].chans)
                /\ slots'[s].rotation_offset = (cyc[s].off + 1) % cyc[s].n]_vars
    /\ [][\A s \in SlotIds :
            (/\ Fire(s)
             /\ \/ ~slots[s].enabled
                \/ EnabledBound(s) = {}
                \/ ActiveOfGroup(s) = {}) =>
                slots' = slots /\ cyc' = cyc]_vars

\* the cycle of the random slot has ended and moved its offset from 0 to 1,
\* and the cycle of the fixed slot has ended and left its offset at 0
C36_Witness ==
    /\ slots[1].slot_type = "random" /\ slots[1].rotation_offset = 1
    /\ slots[2].slot_type = "fixed" /\ slots[2].rotation_offset = 0
    /\ \A s \in SlotIds : cyc[s] = IdleCyc
    /\ \E k \in DOMAIN logs : logs[k].slot_id = 1
    /\ \E k \in DOMAIN logs : logs[k].slot_id = 2

\* the creatives the committed cycles of slot s have selected for channel
\* ch, oldest first, read from the publish records
SelectedFor(s, ch) ==
    LET mine == SelectSeq(logs, LAMBDA l : l.slot_id = s /\ l.channel_id = ch)
    IN [k \in DOMAIN mine |-> mine[k].creative_id]

\* every n consecutive selections of the sequence are the n creatives of the
\* pool, each once
Covers(seq, pool) ==
    LET n == Cardinality(pool)
    IN \A k \in 1..(Len(seq) - n + 1) :
          {seq[j] : j \in k..(k + n - 1)} = pool

\* C37 as stated: within one date, with a pool that does not change and no
\* row of another slot in the channel, any N consecutive cycles of a random
\* slot select each of the N creatives of the pool once for a channel.
C37_RotationCoverage ==
    DateOf(now) = 0 =>
        \A s \in SlotIds, ch \in ChannelIds :
            (slots[s].exists /\ slots[s].slot_type = "random") =>
                Covers(SelectedFor(s, ch), EnabledBound(s))

\* C37 amended: the same, for cycles that all ran over the same list of
\* active channels of the group (here: no channel of the group has been
\* left since the start).
C37_CoverageStableList ==
    DateOf(now) = 0 =>
        \A s \in SlotIds, ch \in ChannelIds :
            (/\ slots[s].exists /\ slots[s].slot_type = "random"
             /\ \A c \in GroupMembers[slots[s].group_id] :
                   channels[c].status = "active") =>
                Covers(SelectedFor(s, ch), EnabledBound(s))

\* two cycles of a random slot with a pool of two have committed on the
\* first date, over the same two channels, and the second channel got the
\* two creatives of the pool one after the other
C37_Witness ==
    \E s \in SlotIds :
        /\ slots[s].slot_type = "random"
        /\ Cardinality(EnabledBound(s)) = 2
        /\ DateOf(now) = 0
        /\ \A c \in GroupMembers[slots[s].group_id] : channels[c].status = "active"
        /\ Cardinality(GroupMembers[slots[s].group_id]) = 2
        /\ \A c \in GroupMembers[slots[s].group_id] :
              /\ Len(SelectedFor(s, c)) = 2
              /\ SelectedFor(s, c)[1] # SelectedFor(s, c)[2]

\* C38: whatever bot token requests have run, and however their steps
\* have interleaved, a polling task that has not ended is the one the
\* handle _polling_task holds, so there is at most one; and a Bot is replaced
\* by a new one only after its session has been closed.
C38_SinglePollingTask ==
    /\ [](\A t \in TaskIds :
            tasks[t] \in {"running", "cancelling"} => polling_task = t)
    /\ [][(bot # NULL /\ bot' # NULL /\ bot' # bot) => bot \in closed']_vars

====
